---- MODULE Spec2Model ----
(***************************************************************************)
(* Model of the Sandboxed API header generator                             *)
(* (sandboxed_api/tools/generator2/code.py).                               *)
(*                                                                         *)
(* The libclang AST is an external input.  It is modelled by tables: a     *)
(* table of type handles (cindex.Type), a table of cursors (cindex.Cursor) *)
(* and, per translation unit, the sequence of cursors of its preorder      *)
(* walk.  The tables describe three headers, written after the headers of  *)
(* code_test.py:                                                           *)
(*                                                                         *)
(*   common.h   #define BASE 8                                             *)
(*              #define SIZE BASE * 2                                      *)
(*              #define NOT_USED 7                                         *)
(*              typedef unsigned int uint;                                 *)
(*              typedef struct data { int a; } data_s;                     *)
(*              struct s { struct data f1; uint n; char buf[SIZE]; };      *)
(*              enum E { A, B };                                           *)
(*              typedef void VOID_T;                                       *)
(*              struct Instance { void* instance; };                       *)
(*              union U { uint u; struct data d; };                        *)
(*              typedef enum Color { RED } Color_t;                        *)
(*              class K { public: E e; };                                  *)
(*              typedef K K_t;                                             *)
(*              typedef struct Outer {                                     *)
(*                struct Inner { int x; } in;                              *)
(*              } Outer_t;                                                 *)
(*   a.h        #include "common.h"                                        *)
(*              struct S6;                                                 *)
(*              typedef struct S6 S6t;                                     *)
(*              typedef S6t* S6p;                                          *)
(*              typedef void ( *F3)(S6p);                                  *)
(*              struct S6 { F3 fn; };                                      *)
(*   b.h        #include "common.h"                                        *)
(*              typedef uint* uint_p;                                      *)
(*              struct S7;                                                 *)
(*              struct S7 { uint v; };                                     *)
(*              #define PING PONG                                          *)
(*              #define PONG PING                                          *)
(*              #define SELF (SELF + BASE)                                 *)
(*              struct Cb { void ( *fn)(struct Cb * ); };                  *)
(*              typedef struct Node { struct Node* next; } node_t;         *)
(*              struct P;                                                  *)
(*              typedef struct { struct P* p; } q_t;                       *)
(*              struct P { q_t* q; char tag[PING]; };                      *)
(*                                                                         *)
(* followed, in each header, by the function declarations drawn from       *)
(* FuncTab.  A Type of the code is a pair [tu, ty]: the owning translation *)
(* unit and the type handle.                                               *)
(***************************************************************************)
EXTENDS Integers, Sequences, FiniteSets, TLC

\* Largest number of function declarations the parsed headers hold.
MaxFuncs == 2

\* Largest argument position drawn when mapped_type is applied on its own.
MaxPos == 2

\* Largest number of types in the list _get_forward_decls is applied to on
\* its own.
MaxTypes == 2

\* Largest number of chunks a path is put together from.
MaxChunks == 3

\* The number of source lines of a token sequence given to _stringify_tokens
MaxLines == 4

\* The number of calls of Type.get_related_types that may be open at a
\* time (the recursion limit of the interpreter)
MaxDepth == 12
MaxCalls == 4

\* What libclang holds of the parsed headers: its types, its cursors and
\* its function declarations
VARIABLE cindex

--------------------------------------------------------------------------
(* Generic helpers *)

Range(q) == {q[i] : i \in 1..Len(q)}

\* All orderings of a finite set as sequences without repetition.
Perms(S) ==
  {q \in [1..Cardinality(S) -> S] : \A i, j \in 1..Cardinality(S) : i # j => q[i] # q[j]}

Index(q, x) == CHOOSE i \in 1..Len(q) : q[i] = x

--------------------------------------------------------------------------
(* cindex.TypeKind values of the scalar types, with their C spelling *)

ScalarSpelling ==
  ("VOID" :> <<"void">>) @@ ("BOOL" :> <<"bool">>) @@
  ("CHAR_U" :> <<"char">>) @@ ("UCHAR" :> <<"unsigned char">>) @@
  ("CHAR_S" :> <<"char">>) @@ ("SCHAR" :> <<"signed char">>) @@
  ("USHORT" :> <<"unsigned short">>) @@ ("UINT" :> <<"unsigned int">>) @@
  ("ULONG" :> <<"unsigned long">>) @@
  ("ULONGLONG" :> <<"unsigned long long">>) @@
  ("SHORT" :> <<"short">>) @@ ("INT" :> <<"int">>) @@ ("LONG" :> <<"long">>) @@
  ("LONGLONG" :> <<"long long">>) @@ ("FLOAT" :> <<"float">>) @@
  ("DOUBLE" :> <<"double">>) @@ ("LONGDOUBLE" :> <<"long double">>) @@
  ("INT128" :> <<"__int128">>) @@ ("WCHAR" :> <<"wchar_t">>) @@
  ("NULLPTR" :> <<"std::nullptr_t">>)

ScalarKinds == DOMAIN ScalarSpelling

TYPE_MAPPING ==
  ("VOID" :> "::sapi::v::Void") @@
  ("CHAR_S" :> "::sapi::v::Char") @@
  ("CHAR_U" :> "::sapi::v::Char") @@
  ("INT" :> "::sapi::v::Int") @@
  ("UINT" :> "::sapi::v::UInt") @@
  ("LONG" :> "::sapi::v::Long") @@
  ("ULONG" :> "::sapi::v::ULong") @@
  ("UCHAR" :> "::sapi::v::UChar") @@
  ("USHORT" :> "::sapi::v::UShort") @@
  ("SHORT" :> "::sapi::v::Short") @@
  ("LONGLONG" :> "::sapi::v::LLong") @@
  ("ULONGLONG" :> "::sapi::v::ULLong") @@
  ("FLOAT" :> "::sapi::v::Reg<float>") @@
  ("DOUBLE" :> "::sapi::v::Reg<double>") @@
  ("LONGDOUBLE" :> "::sapi::v::Reg<long double>") @@
  ("SCHAR" :> "::sapi::v::SChar") @@
  ("BOOL" :> "::sapi::v::Bool")

--------------------------------------------------------------------------
(* The table of type handles.  kind is clang_type.kind, canon the kind of  *)
(* get_canonical(), decl the cursor of get_declaration(), sub the pointee, *)
(* named type or array element type, args and result those of a function   *)
(* prototype.  spelling is clang_type.spelling cut into chunks: the        *)
(* chunks concatenated are the spelling, and every occurrence of the text  *)
(* const is a chunk of its own.                                            *)

Ty(kind, canon, decl, sub, spelling) ==
  [kind |-> kind, canon |-> canon, decl |-> decl, sub |-> sub,
   args |-> <<>>, result |-> "none", spelling |-> spelling]

Proto(args, result, spelling) ==
  [kind |-> "FUNCTIONPROTO", canon |-> "FUNCTIONPROTO", decl |-> "NoDecl",
   sub |-> "none", args |-> args, result |-> result, spelling |-> spelling]

ScalarTypes ==
  [k \in ScalarKinds |-> Ty(k, k, "NoDecl", "none", ScalarSpelling[k])]

NamedTypes ==
  \* common.h
  ("uint" :> Ty("TYPEDEF", "UINT", "uint", "none", <<"uint">>)) @@
  ("data_rec" :> Ty("RECORD", "RECORD", "data", "none", <<"data">>)) @@
  ("struct_data" :>
     Ty("ELABORATED", "RECORD", "data", "data_rec", <<"struct data">>)) @@
  ("struct_data_p" :>
     Ty("POINTER", "POINTER", "NoDecl", "struct_data", <<"struct data *">>)) @@
  ("data_s" :> Ty("TYPEDEF", "RECORD", "data_s", "none", <<"data_s">>)) @@
  ("data_s_p" :> Ty("POINTER", "POINTER", "NoDecl", "data_s", <<"data_s *">>)) @@
  ("s_rec" :> Ty("RECORD", "RECORD", "s", "none", <<"s">>)) @@
  ("struct_s" :> Ty("ELABORATED", "RECORD", "s", "s_rec", <<"struct s">>)) @@
  ("struct_s_p" :>
     Ty("POINTER", "POINTER", "NoDecl", "struct_s", <<"struct s *">>)) @@
  ("char_SIZE" :>
     Ty("CONSTANTARRAY", "CONSTANTARRAY", "NoDecl", "CHAR_S", <<"char[16]">>)) @@
  ("char_10" :>
     Ty("CONSTANTARRAY", "CONSTANTARRAY", "NoDecl", "CHAR_S", <<"char[10]">>)) @@
  ("char_inc" :>
     Ty("INCOMPLETEARRAY", "INCOMPLETEARRAY", "NoDecl", "CHAR_S", <<"char[]">>)) @@
  ("E_enum" :> Ty("ENUM", "ENUM", "E", "none", <<"E">>)) @@
  ("E" :> Ty("ELABORATED", "ENUM", "E", "E_enum", <<"E">>)) @@
  ("const_E" :> Ty("ELABORATED", "ENUM", "E", "E_enum", <<"const", " E">>)) @@
  ("VOID_T" :> Ty("TYPEDEF", "VOID", "VOID_T", "none", <<"VOID_T">>)) @@
  ("void_p" :> Ty("POINTER", "POINTER", "NoDecl", "VOID", <<"void *">>)) @@
  ("Instance_rec" :> Ty("RECORD", "RECORD", "Instance", "none", <<"Instance">>)) @@
  ("Instance" :>
     Ty("ELABORATED", "RECORD", "Instance", "Instance_rec", <<"Instance">>)) @@
  \* the const-qualified record type is a type handle of its own
  ("const_Instance" :>
     Ty("RECORD", "RECORD", "Instance", "none", <<"const", " Instance">>)) @@
  ("Instance_p" :>
     Ty("POINTER", "POINTER", "NoDecl", "Instance", <<"Instance *">>)) @@
  ("const_Instance_p" :>
     Ty("POINTER", "POINTER", "NoDecl", "const_Instance",
        <<"const", " Instance *">>)) @@
  ("Instance_lref" :>
     Ty("LVALUEREFERENCE", "LVALUEREFERENCE", "NoDecl", "Instance",
        <<"Instance &">>)) @@
  ("Instance_rref" :>
     Ty("RVALUEREFERENCE", "RVALUEREFERENCE", "NoDecl", "Instance",
        <<"Instance &&">>)) @@
  ("s_memptr" :>
     Ty("MEMBERPOINTER", "MEMBERPOINTER", "NoDecl", "INT", <<"int s::*">>)) @@
  ("U_rec" :> Ty("RECORD", "RECORD", "U", "none", <<"U">>)) @@
  ("union_U" :> Ty("ELABORATED", "RECORD", "U", "U_rec", <<"union U">>)) @@
  ("union_U_p" :>
     Ty("POINTER", "POINTER", "NoDecl", "union_U", <<"union U *">>)) @@
  ("Color_enum" :> Ty("ENUM", "ENUM", "Color", "none", <<"Color">>)) @@
  ("enum_Color" :>
     Ty("ELABORATED", "ENUM", "Color", "Color_enum", <<"enum Color">>)) @@
  ("Color_t" :> Ty("TYPEDEF", "ENUM", "Color_t", "none", <<"Color_t">>)) @@
  ("K_rec" :> Ty("RECORD", "RECORD", "K", "none", <<"K">>)) @@
  ("K" :> Ty("ELABORATED", "RECORD", "K", "K_rec", <<"K">>)) @@
  ("K_p" :> Ty("POINTER", "POINTER", "NoDecl", "K", <<"K *">>)) @@
  ("K_t" :> Ty("TYPEDEF", "RECORD", "K_t", "none", <<"K_t">>)) @@
  ("Inner_rec" :> Ty("RECORD", "RECORD", "Inner", "none", <<"Inner">>)) @@
  ("struct_Inner" :>
     Ty("ELABORATED", "RECORD", "Inner", "Inner_rec", <<"struct Inner">>)) @@
  ("Outer_rec" :> Ty("RECORD", "RECORD", "Outer", "none", <<"Outer">>)) @@
  ("struct_Outer" :>
     Ty("ELABORATED", "RECORD", "Outer", "Outer_rec", <<"struct Outer">>)) @@
  ("Outer_t" :> Ty("TYPEDEF", "RECORD", "Outer_t", "none", <<"Outer_t">>)) @@
  ("Outer_t_p" :>
     Ty("POINTER", "POINTER", "NoDecl", "Outer_t", <<"Outer_t *">>)) @@
  \* a.h
  ("S6_rec" :> Ty("RECORD", "RECORD", "S6", "none", <<"S6">>)) @@
  ("struct_S6" :> Ty("ELABORATED", "RECORD", "S6", "S6_rec", <<"struct S6">>)) @@
  ("S6t" :> Ty("TYPEDEF", "RECORD", "S6t", "none", <<"S6t">>)) @@
  ("S6t_p" :> Ty("POINTER", "POINTER", "NoDecl", "S6t", <<"S6t *">>)) @@
  ("S6p" :> Ty("TYPEDEF", "POINTER", "S6p", "none", <<"S6p">>)) @@
  ("F3_proto" :> Proto(<<"S6p">>, "VOID", <<"void (S6p)">>)) @@
  ("F3_ptr" :>
     Ty("POINTER", "POINTER", "NoDecl", "F3_proto", <<"void ( * )(S6p)">>)) @@
  ("F3" :> Ty("TYPEDEF", "POINTER", "F3", "none", <<"F3">>)) @@
  \* b.h
  ("uint_ptr" :> Ty("POINTER", "POINTER", "NoDecl", "uint", <<"uint *">>)) @@
  ("uint_p" :> Ty("TYPEDEF", "POINTER", "uint_p", "none", <<"uint_p">>)) @@
  ("S7_rec" :> Ty("RECORD", "RECORD", "S7", "none", <<"S7">>)) @@
  ("struct_S7" :> Ty("ELABORATED", "RECORD", "S7", "S7_rec", <<"struct S7">>)) @@
  ("struct_S7_p" :>
     Ty("POINTER", "POINTER", "NoDecl", "struct_S7", <<"struct S7 *">>)) @@
  \* b.h: struct Cb { void (*fn)(struct Cb*); };
  ("Cb_rec" :> Ty("RECORD", "RECORD", "Cb", "none", <<"Cb">>)) @@
  ("struct_Cb" :> Ty("ELABORATED", "RECORD", "Cb", "Cb_rec", <<"struct Cb">>)) @@
  ("struct_Cb_p" :>
     Ty("POINTER", "POINTER", "NoDecl", "struct_Cb", <<"struct Cb *">>)) @@
  ("Cb_proto" :> Proto(<<"struct_Cb_p">>, "VOID", <<"void (struct Cb *)">>)) @@
  ("Cb_fn" :>
     Ty("POINTER", "POINTER", "NoDecl", "Cb_proto", <<"void ( * )(struct Cb *)">>)) @@
  \* b.h: typedef struct Node { struct Node* next; } node_t;
  ("Node_rec" :> Ty("RECORD", "RECORD", "Node", "none", <<"Node">>)) @@
  ("struct_Node" :>
     Ty("ELABORATED", "RECORD", "Node", "Node_rec", <<"struct Node">>)) @@
  ("struct_Node_p" :>
     Ty("POINTER", "POINTER", "NoDecl", "struct_Node", <<"struct Node *">>)) @@
  ("node_t" :> Ty("TYPEDEF", "RECORD", "node_t", "none", <<"node_t">>)) @@
  \* b.h: struct P; typedef struct { struct P* p; } q_t;
  \*      struct P { q_t* q; char tag[PING]; };
  ("P_rec" :> Ty("RECORD", "RECORD", "P", "none", <<"P">>)) @@
  ("struct_P" :> Ty("ELABORATED", "RECORD", "P", "P_rec", <<"struct P">>)) @@
  ("struct_P_p" :>
     Ty("POINTER", "POINTER", "NoDecl", "struct_P", <<"struct P *">>)) @@
  ("Q_rec" :> Ty("RECORD", "RECORD", "Q", "none", <<"q_t">>)) @@
  ("struct_Q" :> Ty("ELABORATED", "RECORD", "Q", "Q_rec", <<"q_t">>)) @@
  ("q_t" :> Ty("TYPEDEF", "RECORD", "q_t", "none", <<"q_t">>)) @@
  ("q_t_p" :> Ty("POINTER", "POINTER", "NoDecl", "q_t", <<"q_t *">>)) @@
  ("char_PING" :>
     Ty("CONSTANTARRAY", "CONSTANTARRAY", "NoDecl", "CHAR_S", <<"char[1]">>))

\* The handle libclang returns where there is no type (the pointee of a type
\* that is no pointer).
InvalidType == "INVALID" :> Ty("INVALID", "INVALID", "NoDecl", "none", <<>>)

TypeTab == ScalarTypes @@ NamedTypes @@ InvalidType

TypeIds == DOMAIN TypeTab

--------------------------------------------------------------------------
(* The table of cursors.  kind is cursor.kind, usr get_usr(), file, lo and *)
(* hi the extent of the cursor (offsets in its file), is_def               *)
(* is_definition(), underlying the underlying_typedef_type of a typedef,   *)
(* fields the field cursors of a record (type and tokens of each), tokens  *)
(* the spellings of get_tokens().  The hash of a cursor is its name in     *)
(* this table.                                                             *)

Decl(kind, usr, spelling, file, lo, hi, is_def, underlying, fields, tokens) ==
  [kind |-> kind, usr |-> usr, spelling |-> spelling, file |-> file,
   lo |-> lo, hi |-> hi, is_def |-> is_def, underlying |-> underlying,
   fields |-> fields, tokens |-> tokens]

Field(type, tokens) == [type |-> type, tokens |-> tokens]

DeclTab ==
  ("NoDecl" :>
     Decl("NO_DECL_FOUND", "", "", "none", 0, 0, FALSE, "none", <<>>, <<>>)) @@
  \* a macro the compiler defines: it has no file
  ("M_STDC" :>
     Decl("MACRO_DEFINITION", "c:macro@__STDC__", "__STDC__", "none", 0, 0, TRUE,
          "none", <<>>, <<"__STDC__", "1">>)) @@
  \* common.h
  ("M_BASE" :>
     Decl("MACRO_DEFINITION", "c:macro@BASE", "BASE", "common.h", 1, 2, TRUE,
          "none", <<>>, <<"BASE", "8">>)) @@
  ("M_SIZE" :>
     Decl("MACRO_DEFINITION", "c:macro@SIZE", "SIZE", "common.h", 3, 4, TRUE,
          "none", <<>>, <<"SIZE", "BASE", "*", "2">>)) @@
  ("M_NOT_USED" :>
     Decl("MACRO_DEFINITION", "c:macro@NOT_USED", "NOT_USED", "common.h", 5, 6,
          TRUE, "none", <<>>, <<"NOT_USED", "7">>)) @@
  ("uint" :>
     Decl("TYPEDEF_DECL", "c:@T@uint", "uint", "common.h", 10, 12, TRUE, "UINT",
          <<>>, <<"typedef", "unsigned", "int", "uint">>)) @@
  ("data" :>
     Decl("STRUCT_DECL", "c:@S@data", "data", "common.h", 21, 28, TRUE, "none",
          <<Field("INT", <<"int", "a">>)>>,
          <<"struct", "data", "{", "int", "a", ";", "}">>)) @@
  ("data_s" :>
     Decl("TYPEDEF_DECL", "c:@T@data_s", "data_s", "common.h", 20, 30, TRUE,
          "struct_data", <<>>,
          <<"typedef", "struct", "data", "{", "int", "a", ";", "}", "data_s">>)) @@
  ("s" :>
     Decl("STRUCT_DECL", "c:@S@s", "s", "common.h", 40, 50, TRUE, "none",
          <<Field("struct_data", <<"struct", "data", "f1">>),
            Field("uint", <<"uint", "n">>),
            Field("char_SIZE", <<"char", "buf", "[", "SIZE", "]">>)>>,
          <<"struct", "s", "{", "struct", "data", "f1", ";", "uint", "n", ";",
            "char", "buf", "[", "SIZE", "]", ";", "}">>)) @@
  ("E" :>
     Decl("ENUM_DECL", "c:@E@E", "E", "common.h", 60, 65, TRUE, "none", <<>>,
          <<"enum", "E", "{", "A", ",", "B", "}">>)) @@
  ("VOID_T" :>
     Decl("TYPEDEF_DECL", "c:@T@VOID_T", "VOID_T", "common.h", 70, 72, TRUE,
          "VOID", <<>>, <<"typedef", "void", "VOID_T">>)) @@
  ("Instance" :>
     Decl("STRUCT_DECL", "c:@S@Instance", "Instance", "common.h", 80, 90, TRUE,
          "none", <<Field("void_p", <<"void", "*", "instance">>)>>,
          <<"struct", "Instance", "{", "void", "*", "instance", ";", "}">>)) @@
  ("U" :>
     Decl("UNION_DECL", "c:@U@U", "U", "common.h", 100, 110, TRUE, "none",
          <<Field("uint", <<"uint", "u">>),
            Field("struct_data", <<"struct", "data", "d">>)>>,
          <<"union", "U", "{", "uint", "u", ";", "struct", "data", "d", ";",
            "}">>)) @@
  ("Color" :>
     Decl("ENUM_DECL", "c:@E@Color", "Color", "common.h", 121, 128, TRUE, "none",
          <<>>, <<"enum", "Color", "{", "RED", "}">>)) @@
  ("Color_t" :>
     Decl("TYPEDEF_DECL", "c:@T@Color_t", "Color_t", "common.h", 120, 130, TRUE,
          "enum_Color", <<>>,
          <<"typedef", "enum", "Color", "{", "RED", "}", "Color_t">>)) @@
  ("K" :>
     Decl("CLASS_DECL", "c:@S@K", "K", "common.h", 140, 150, TRUE, "none",
          <<Field("E", <<"E", "e">>)>>,
          <<"class", "K", "{", "public", ":", "E", "e", ";", "}">>)) @@
  ("K_t" :>
     Decl("TYPEDEF_DECL", "c:@T@K_t", "K_t", "common.h", 160, 165, TRUE, "K",
          <<>>, <<"typedef", "K", "K_t">>)) @@
  ("Outer" :>
     Decl("STRUCT_DECL", "c:@S@Outer", "Outer", "common.h", 171, 189, TRUE,
          "none", <<Field("struct_Inner", <<"struct", "Inner", "{", "int", "x",
                                            ";", "}", "in">>)>>,
          <<"struct", "Outer", "{", "struct", "Inner", "{", "int", "x", ";",
            "}", "in", ";", "}">>)) @@
  ("Inner" :>
     Decl("STRUCT_DECL", "c:@S@Outer@S@Inner", "Inner", "common.h", 175, 180,
          TRUE, "none", <<Field("INT", <<"int", "x">>)>>,
          <<"struct", "Inner", "{", "int", "x", ";", "}">>)) @@
  ("Outer_t" :>
     Decl("TYPEDEF_DECL", "c:@T@Outer_t", "Outer_t", "common.h", 170, 190, TRUE,
          "struct_Outer", <<>>,
          <<"typedef", "struct", "Outer", "{", "struct", "Inner", "{", "int",
            "x", ";", "}", "in", ";", "}", "Outer_t">>)) @@
  \* a.h
  ("S6fwd" :>
     Decl("STRUCT_DECL", "c:@S@S6", "S6", "a.h", 10, 12, FALSE, "none", <<>>,
          <<"struct", "S6">>)) @@
  ("S6t" :>
     Decl("TYPEDEF_DECL", "c:@T@S6t", "S6t", "a.h", 20, 25, TRUE, "struct_S6",
          <<>>, <<"typedef", "struct", "S6", "S6t">>)) @@
  ("S6p" :>
     Decl("TYPEDEF_DECL", "c:@T@S6p", "S6p", "a.h", 30, 35, TRUE, "S6t_p", <<>>,
          <<"typedef", "S6t", "*", "S6p">>)) @@
  ("F3" :>
     Decl("TYPEDEF_DECL", "c:@T@F3", "F3", "a.h", 40, 45, TRUE, "F3_ptr", <<>>,
          <<"typedef", "void", "(", "*", "F3", ")", "(", "S6p", ")">>)) @@
  ("S6" :>
     Decl("STRUCT_DECL", "c:@S@S6", "S6", "a.h", 50, 60, TRUE, "none",
          <<Field("F3", <<"F3", "fn">>)>>,
          <<"struct", "S6", "{", "F3", "fn", ";", "}">>)) @@
  \* a cursor whose kind the Python bindings cannot decode
  ("X_new" :>
     Decl("UNDECODABLE", "", "", "a.h", 70, 75, FALSE, "none", <<>>, <<>>)) @@
  \* b.h
  ("uint_p" :>
     Decl("TYPEDEF_DECL", "c:@T@uint_p", "uint_p", "b.h", 10, 15, TRUE,
          "uint_ptr", <<>>, <<"typedef", "uint", "*", "uint_p">>)) @@
  ("S7fwd" :>
     Decl("STRUCT_DECL", "c:@S@S7", "S7", "b.h", 20, 22, FALSE, "none", <<>>,
          <<"struct", "S7">>)) @@
  ("S7" :>
     Decl("STRUCT_DECL", "c:@S@S7", "S7", "b.h", 30, 40, TRUE, "none",
          <<Field("uint", <<"uint", "v">>)>>,
          <<"struct", "S7", "{", "uint", "v", ";", "}">>)) @@
  \* macros whose bodies mention each other, and one that mentions itself
  ("M_PING" :>
     Decl("MACRO_DEFINITION", "c:macro@PING", "PING", "b.h", 41, 42, TRUE,
          "none", <<>>, <<"PING", "PONG">>)) @@
  ("M_PONG" :>
     Decl("MACRO_DEFINITION", "c:macro@PONG", "PONG", "b.h", 43, 44, TRUE,
          "none", <<>>, <<"PONG", "PING">>)) @@
  ("M_SELF" :>
     Decl("MACRO_DEFINITION", "c:macro@SELF", "SELF", "b.h", 45, 46, TRUE,
          "none", <<>>, <<"SELF", "(", "SELF", "+", "BASE", ")">>)) @@
  ("Cb" :>
     Decl("STRUCT_DECL", "c:@S@Cb", "Cb", "b.h", 50, 60, TRUE, "none",
          <<Field("Cb_fn", <<"void", "(", "*", "fn", ")", "(", "struct", "Cb", "*", ")">>)>>,
          <<"struct", "Cb", "{", "void", "(", "*", "fn", ")", "(", "struct", "Cb",
            "*", ")", ";", "}">>)) @@
  ("Node" :>
     Decl("STRUCT_DECL", "c:@S@Node", "Node", "b.h", 71, 85, TRUE, "none",
          <<Field("struct_Node_p", <<"struct", "Node", "*", "next">>)>>,
          <<"struct", "Node", "{", "struct", "Node", "*", "next", ";", "}">>)) @@
  ("node_t" :>
     Decl("TYPEDEF_DECL", "c:@T@node_t", "node_t", "b.h", 70, 90, TRUE,
          "struct_Node", <<>>,
          <<"typedef", "struct", "Node", "{", "struct", "Node", "*", "next", ";",
            "}", "node_t">>)) @@
  ("Pfwd" :>
     Decl("STRUCT_DECL", "c:@S@P", "P", "b.h", 100, 102, FALSE, "none", <<>>,
          <<"struct", "P">>)) @@
  \* a record without a name
  ("Q" :>
     Decl("STRUCT_DECL", "c:@SA@q_t", "", "b.h", 111, 125, TRUE, "none",
          <<Field("struct_P_p", <<"struct", "P", "*", "p">>)>>,
          <<"struct", "{", "struct", "P", "*", "p", ";", "}">>)) @@
  ("q_t" :>
     Decl("TYPEDEF_DECL", "c:@T@q_t", "q_t", "b.h", 110, 130, TRUE, "struct_Q",
          <<>>, <<"typedef", "struct", "{", "struct", "P", "*", "p", ";", "}", "q_t">>)) @@
  ("P" :>
     Decl("STRUCT_DECL", "c:@S@P", "P", "b.h", 140, 160, TRUE, "none",
          <<Field("q_t_p", <<"q_t", "*", "q">>),
            Field("char_PING", <<"char", "tag", "[", "PING", "]">>)>>,
          <<"struct", "P", "{", "q_t", "*", "q", ";", "char", "tag", "[", "PING",
            "]", ";", "}">>))

\* The cursors of each header other than its function declarations, in the
\* order of the preorder walk.
HeaderWalk ==
  ("common.h" :>
     <<"M_STDC", "M_BASE", "M_SIZE", "M_NOT_USED", "uint", "data", "data_s", "s", "E",
       "VOID_T", "Instance", "U", "Color", "Color_t", "K", "K_t", "Outer", "Inner",
       "Outer_t">>) @@
  ("a.h" :> <<"S6fwd", "S6t", "S6p", "F3", "S6", "X_new">>) @@
  ("b.h" :>
     <<"uint_p", "S7fwd", "S7", "M_PING", "M_PONG", "M_SELF", "Cb", "Node", "node_t",
       "Pfwd", "Q", "q_t", "P">>)

\* The top-level path of each translation unit; each includes common.h first.
TuPath == <<"a.h", "b.h">>

TUs == DOMAIN TuPath

--------------------------------------------------------------------------
(* The function declarations the headers may hold.  name is                *)
(* cursor.spelling, mangled cursor.mangled_name, linkage cursor.linkage,   *)
(* ret cursor.result_type, args the type and spelling of each cursor of    *)
(* get_arguments(), file and line cursor.location.                         *)

Fn(name, usr, mangled, linkage, file, line, ret, args) ==
  [name |-> name, usr |-> usr, mangled |-> mangled, linkage |-> linkage,
   file |-> file, line |-> line, ret |-> ret, args |-> args]

Arg(type, name) == [type |-> type, name |-> name]

FuncTab ==
  \* extern "C" void fa(struct s* a1);
  ("F_fa" :> Fn("fa", "c:@F@fa", "fa", "EXTERNAL", "a.h", 101, "VOID",
                <<Arg("struct_s_p", "a1")>>)) @@
  \* namespace n { extern "C" void fa(struct s* a1); }
  ("F_fa_n" :> Fn("fa", "c:@N@n@F@fa", "fa", "EXTERNAL", "b.h", 102, "VOID",
                  <<Arg("struct_s_p", "a1")>>)) @@
  \* extern "C" void fb(data_s* a2);
  ("F_fb" :> Fn("fb", "c:@F@fb", "fb", "EXTERNAL", "a.h", 103, "VOID",
                <<Arg("data_s_p", "a2")>>)) @@
  \* extern "C" void fc(S6p a1);
  ("F_fc" :> Fn("fc", "c:@F@fc", "fc", "EXTERNAL", "a.h", 104, "VOID",
                <<Arg("S6p", "a1")>>)) @@
  \* extern "C" uint fd(uint x, float);
  ("F_fd" :> Fn("fd", "c:@F@fd", "fd", "EXTERNAL", "common.h", 105, "uint",
                <<Arg("uint", "x"), Arg("FLOAT", "")>>)) @@
  \* extern "C" E fe(E status, uint_p p);
  ("F_fe" :> Fn("fe", "c:@F@fe", "fe", "EXTERNAL", "b.h", 107, "E",
                <<Arg("E", "status"), Arg("uint_p", "p")>>)) @@
  \* extern "C" int ff(struct s a);
  ("F_ff" :> Fn("ff", "c:@F@ff", "ff", "EXTERNAL", "b.h", 108, "INT",
                <<Arg("struct_s", "a")>>)) @@
  \* void fh(Instance& a, Instance&& b);
  ("F_fh" :> Fn("fh", "c:@F@fh#&$@S@Instance#&&S0_#", "_Z2fhR8InstanceOS_",
                "EXTERNAL", "a.h", 110, "VOID",
                <<Arg("Instance_lref", "a"), Arg("Instance_rref", "b")>>)) @@
  \* extern "C" void fi(const Instance* a, Instance* b);
  ("F_fi" :> Fn("fi", "c:@F@fi", "fi", "EXTERNAL", "a.h", 111, "VOID",
                <<Arg("const_Instance_p", "a"), Arg("Instance_p", "b")>>)) @@
  \* extern "C" data_s fr(int);
  ("F_fr" :> Fn("fr", "c:@F@fr", "fr", "EXTERNAL", "a.h", 114, "data_s",
                <<Arg("INT", "")>>)) @@
  \* static int fs();
  ("F_fs" :> Fn("fs", "c:a.h@F@fs", "fs", "INTERNAL", "a.h", 115, "INT",
                <<>>)) @@
  \* extern "C" VOID_T fv();
  ("F_fv" :> Fn("fv", "c:@F@fv", "fv", "EXTERNAL", "a.h", 117, "VOID_T",
                <<>>))

FuncIds == DOMAIN FuncTab

\* Two more function declarations, over the records of common.h
RecordFuncTab ==
  \* extern "C" void fo(Outer_t* o);
  ("F_fo" :> Fn("fo", "c:@F@fo", "fo", "EXTERNAL", "a.h", 120, "VOID",
                <<Arg("Outer_t_p", "o")>>)) @@
  \* extern "C" int fu(union U* u);
  ("F_fu" :> Fn("fu", "c:@F@fu", "fu", "EXTERNAL", "b.h", 121, "INT",
                <<Arg("union_U_p", "u")>>))

\* The function cursors in the order in which their declarations are written.
FuncOrder ==
  <<"F_fa", "F_fa_n", "F_fb", "F_fc", "F_fd", "F_fe", "F_ff", "F_fh", "F_fi",
    "F_fr", "F_fs", "F_fv", "F_fo", "F_fu">>

\* Python's order of the function names (str.__lt__), as a rank.
NameOrder ==
  <<"fa", "fb", "fc", "fd", "fe", "ff", "fh", "fi", "fo", "fr", "fs", "fu", "fv">>

NameRank(n) == Index(NameOrder, n)

--------------------------------------------------------------------------
(* class Type.  A Type is [tu |-> translation unit, ty |-> type handle].   *)

MkType(n, ty) == [tu |-> n, ty |-> ty]

is_void(ty) == cindex.types[ty].kind = "VOID"

is_typedef(ty) == cindex.types[ty].kind = "TYPEDEF"

is_elaborated(ty) == cindex.types[ty].kind = "ELABORATED"

is_sugared_record(ty) ==
  cindex.cursors[cindex.types[ty].decl].kind \in {"STRUCT_DECL", "UNION_DECL", "CLASS_DECL"}

is_struct(ty) == cindex.cursors[cindex.types[ty].decl].kind = "STRUCT_DECL"

is_class(ty) == cindex.cursors[cindex.types[ty].decl].kind = "CLASS_DECL"

is_union(ty) == cindex.cursors[cindex.types[ty].decl].kind = "UNION_DECL"

is_function(ty) == cindex.types[ty].kind = "FUNCTIONPROTO"

is_sugared_ptr(ty) == cindex.types[ty].canon = "POINTER"

is_sugared_enum(ty) == cindex.types[ty].canon = "ENUM"

is_const_array(ty) == cindex.types[ty].kind = "CONSTANTARRAY"

is_simple_type(ty) == cindex.types[ty].kind \in DOMAIN TYPE_MAPPING

get_pointee(ty) ==
  IF cindex.types[ty].kind \in
       {"POINTER", "MEMBERPOINTER", "LVALUEREFERENCE", "RVALUEREFERENCE"}
  THEN cindex.types[ty].sub
  ELSE "INVALID"

RECURSIVE _get_declaration(_)
_get_declaration(ty) ==
  LET decl == cindex.types[ty].decl IN
  IF cindex.cursors[decl].kind = "NO_DECL_FOUND" /\ is_sugared_ptr(ty)
  THEN _get_declaration(get_pointee(ty))
  ELSE decl

TypeUsr(t) == cindex.cursors[_get_declaration(t.ty)].usr

\* Type.__hash__: the hash of the declaration's USR (the USR stands for it).
TypeHash(t) == TypeUsr(t)

\* Type.__eq__
TypeEq(t, u) == TypeUsr(t) = TypeUsr(u)

\* Type.__ne__
TypeNe(t, u) == ~TypeEq(t, u)

\* Membership by object identity, what a set does for a class that defines
\* neither __hash__ nor __eq__: the variant C2 is sensitive to.
TypeInByIdentity(t, S) == t \in S

\* `t in S` for a Python set or dict S of Types: same hash and equal.
TypeIn(t, S) == \E u \in S : TypeHash(u) = TypeHash(t) /\ TypeEq(u, t)

\* A variant of TypeAdd that takes out of the set an element equal to the
\* one it is given: C26 is sensitive to it.
TypeAddOrDiscard(S, t) == IF TypeIn(t, S) THEN {u \in S : TypeNe(u, t)} ELSE S \cup {t}

\* set.add: an element equal to one of the set is not added.
TypeAdd(S, t) == IF TypeIn(t, S) THEN S ELSE S \cup {t}

\* set.update with the elements of another set of Types.
TypeUpdate(S, T) == S \cup {t \in T : ~TypeIn(t, S)}

\* Type.contains_declaration
contains_declaration(ty, other) ==
  LET self_extent == cindex.cursors[_get_declaration(ty)]
      other_extent == cindex.cursors[_get_declaration(other)]
  IN IF other_extent.file = "none" THEN FALSE
     ELSE /\ self_extent.file = other_extent.file
          /\ self_extent.lo <= other_extent.lo /\ other_extent.lo <= self_extent.hi
          /\ self_extent.lo <= other_extent.hi /\ other_extent.hi <= self_extent.hi

--------------------------------------------------------------------------
(* _TranslationUnit.search_for_macro_name.  u is the translation unit's    *)
(* record; the operator returns it with required_defines grown.            *)

RECURSIVE SearchTokens(_, _, _)
SearchTokens(u, tokens, i) ==
  IF i > Len(tokens) THEN u
  ELSE LET token == tokens[i] IN
       IF token \in DOMAIN u.defines /\ token \notin u.required_defines
       THEN LET u1 == [u EXCEPT !.required_defines = @ \cup {token}]
                u2 == SearchTokens(u1, cindex.cursors[u.defines[token]].tokens, 1)
            IN SearchTokens(u2, tokens, i + 1)
       ELSE SearchTokens(u, tokens, i + 1)

\* A variant of search_for_macro_name that does not search the body of the
\* macros it finds: C14 is sensitive to it.
SearchDeclarationOnly(u, tokens) ==
  [u EXCEPT !.required_defines = @ \cup (Range(tokens) \cap DOMAIN u.defines)]

search_for_macro_name(u, tokens) == SearchTokens(u, tokens, 1)

--------------------------------------------------------------------------
(* Type.get_related_types.  acc is [result, u]: the set under construction *)
(* and the record of the owning translation unit, whose types_to_skip and  *)
(* required_defines the walk grows.                                        *)

RECURSIVE get_related_types(_, _, _, _)
RECURSIVE FieldsLoop(_, _, _, _)
RECURSIVE ArgsLoop(_, _, _, _)

_get_related_types_of_typedef(n, ty, acc) ==
  LET decl == cindex.types[ty].decl
      a1 == [result |-> TypeAdd(acc.result, MkType(n, ty)),
             u |-> search_for_macro_name(acc.u, cindex.cursors[decl].tokens)]
      t0 == cindex.cursors[decl].underlying
      t == IF is_sugared_ptr(t0) THEN get_pointee(t0) ELSE t0
  IN IF ~is_simple_type(t)
     THEN LET skip_child == contains_declaration(ty, t)
              a2 == IF is_sugared_record(t) /\ skip_child
                    THEN [a1 EXCEPT !.u.types_to_skip = TypeAdd(@, MkType(n, t))]
                    ELSE a1
          IN get_related_types(n, t, a2, skip_child)
     ELSE a1

FieldsLoop(n, fields, i, acc) ==
  IF i > Len(fields) THEN acc
  ELSE LET a1 == [acc EXCEPT !.u = search_for_macro_name(@, fields[i].tokens)]
       IN FieldsLoop(n, fields, i + 1,
                     get_related_types(n, fields[i].type, a1, FALSE))

_get_related_types_of_record(n, ty, acc, skip_self) ==
  LET decl == _get_declaration(ty)
      a1 == IF cindex.cursors[decl].spelling # "" /\ ~skip_self
            THEN [result |-> TypeAdd(acc.result, MkType(n, ty)),
                  u |-> search_for_macro_name(acc.u, cindex.cursors[decl].tokens)]
            ELSE acc
  IN FieldsLoop(n, cindex.cursors[cindex.types[ty].decl].fields, 1, a1)

ArgsLoop(n, args, i, acc) ==
  IF i > Len(args) THEN acc
  ELSE ArgsLoop(n, args, i + 1, get_related_types(n, args[i], acc, FALSE))

_get_related_types_of_function(n, ty, acc) ==
  get_related_types(n, cindex.types[ty].result,
                    ArgsLoop(n, cindex.types[ty].args, 1, acc), FALSE)

get_related_types(n, ty, acc, skip_self) ==
  IF TypeIn(MkType(n, ty), acc.result) \/ is_simple_type(ty) \/ is_class(ty)
  THEN acc
  ELSE IF is_typedef(ty) THEN _get_related_types_of_typedef(n, ty, acc)
  ELSE IF is_elaborated(ty)
  THEN get_related_types(n, cindex.types[ty].sub, acc, skip_self)
  ELSE IF is_const_array(ty)
  THEN get_related_types(n, cindex.types[ty].sub, acc, FALSE)
  ELSE IF cindex.types[ty].kind \in
            {"POINTER", "MEMBERPOINTER", "LVALUEREFERENCE", "RVALUEREFERENCE"}
  THEN get_related_types(n, get_pointee(ty), acc, skip_self)
  ELSE IF is_struct(ty) \/ is_union(ty)
  THEN _get_related_types_of_record(n, ty, acc, skip_self)
  ELSE IF is_function(ty) THEN _get_related_types_of_function(n, ty, acc)
  ELSE IF is_sugared_enum(ty)
  THEN IF ~skip_self
       THEN [result |-> TypeAdd(acc.result, MkType(n, ty)),
             u |-> search_for_macro_name(
                     acc.u, cindex.cursors[_get_declaration(ty)].tokens)]
       ELSE acc
  ELSE acc

--------------------------------------------------------------------------
(* Text helpers *)

\* ''.join(chunks)
RECURSIVE Concat(_)
Concat(chunks) ==
  IF chunks = <<>> THEN "" ELSE Head(chunks) \o Concat(Tail(chunks))

\* sep.join(strings)
RECURSIVE Join(_, _)
Join(sep, strings) ==
  IF strings = <<>> THEN ""
  ELSE IF Len(strings) = 1 THEN strings[1]
  ELSE strings[1] \o sep \o Join(sep, Tail(strings))

Spelling(ty) == Concat(cindex.types[ty].spelling)

\* spelling.replace('const', '')
StripConst(ty) == Concat(SelectSeq(cindex.types[ty].spelling, LAMBDA c : c # "const"))

--------------------------------------------------------------------------
(* class Function: [tu, cursor], and class ArgumentType:                   *)
(* [function, pos, ty, name], with name the spelling of the parameter      *)
(* ("" when it has none).                                                  *)

MkFunction(n, c) == [tu |-> n, cursor |-> c]

FunctionName(f) == cindex.functions[f.cursor].name

MkArgumentType(f, pos, ty, name) ==
  [function |-> f, pos |-> pos, ty |-> ty,
   name |-> IF name # "" THEN name ELSE "a" \o ToString(pos)]

\* ReturnType.__init__
MkReturnType(f, ty) == MkArgumentType(f, 0, ty, "")

\* Function.result
FunctionResult(f) == MkReturnType(f, cindex.functions[f.cursor].ret)

\* Function.argument_types
argument_types(f) ==
  [i \in 1..Len(cindex.functions[f.cursor].args) |->
     MkArgumentType(f, i - 1, cindex.functions[f.cursor].args[i].type,
                    cindex.functions[f.cursor].args[i].name)]

\* cursor.displayname of a function cursor
DisplayName(c) ==
  cindex.functions[c].name \o "(" \o
  Join(", ", [i \in 1..Len(cindex.functions[c].args) |-> Spelling(cindex.functions[c].args[i].type)])
  \o ")"

original_definition(f) ==
  Spelling(cindex.functions[f.cursor].ret) \o " " \o DisplayName(f.cursor)

\* A variant of call_argument that passes every parameter through a local
\* wrapper: C8 is sensitive to it.
CallArgumentWrapped(a) == "&" \o a.name \o "_"

\* ArgumentType.call_argument
call_argument(a) ==
  IF is_sugared_ptr(a.ty) THEN a.name ELSE "&" \o a.name \o "_"

\* Function.call_arguments
call_arguments(f) ==
  [i \in 1..Len(argument_types(f)) |-> call_argument(argument_types(f)[i])]

\* ArgumentType.__str__
ArgumentStr(a) ==
  IF is_sugared_ptr(a.ty) THEN "::sapi::v::Ptr* " \o a.name
  ELSE Spelling(a.ty) \o " " \o a.name

\* ReturnType.__str__
ReturnStr(a) ==
  IF is_void(a.ty) THEN "absl::Status"
  ELSE "absl::StatusOr<" \o StripConst(a.ty) \o ">"

Raised(type, a, kind) ==
  [ok |-> FALSE, value |-> "",
   error |-> [type |-> type, kind |-> kind,
              function |-> FunctionName(a.function), arg |-> a.pos,
              spelling |-> Spelling(a.ty),
              location |-> <<cindex.functions[a.function.cursor].file,
                             cindex.functions[a.function.cursor].line>>]]

NoError == [type |-> "", kind |-> "", function |-> "", arg |-> 0,
            spelling |-> "", location |-> <<"", 0>>]

Returned(value) == [ok |-> TRUE, value |-> value, error |-> NoError]

\* A variant of mapped_type that maps a record passed by value to a
\* placeholder, as it does references, instead of failing: C6 is sensitive
\* to it.
MappedTypeRecordPlaceholder(a) ==
  IF is_sugared_ptr(a.ty)
  THEN Returned("::sapi::v::Reg<" \o StripConst(a.ty) \o ">")
  ELSE IF cindex.types[a.ty].canon = "ENUM"
  THEN Returned("::sapi::v::IntBase<" \o Spelling(a.ty) \o ">")
  ELSE IF cindex.types[a.ty].canon = "RECORD"
  THEN Returned("RECORD::NOT_SUPPORTED")
  ELSE IF cindex.types[a.ty].canon \in DOMAIN TYPE_MAPPING
  THEN Returned(TYPE_MAPPING[cindex.types[a.ty].canon])
  ELSE Returned(cindex.types[a.ty].canon \o "::NOT_SUPPORTED")

\* A variant of mapped_type that looks the kind up without peeling typedef
\* and elaborated layers: C7 is sensitive to it.
MappedTypeUnpeeled(a) ==
  IF is_sugared_ptr(a.ty)
  THEN Returned("::sapi::v::Reg<" \o StripConst(a.ty) \o ">")
  ELSE IF cindex.types[a.ty].kind \in DOMAIN TYPE_MAPPING
  THEN Returned(TYPE_MAPPING[cindex.types[a.ty].kind])
  ELSE Raised("KeyError", a, cindex.types[a.ty].kind)

\* ArgumentType.mapped_type
mapped_type(a) ==
  IF is_sugared_ptr(a.ty)
  THEN Returned("::sapi::v::Reg<" \o StripConst(a.ty) \o ">")
  ELSE
    LET k0 == cindex.types[a.ty].kind
        k1 == IF k0 = "TYPEDEF" THEN cindex.types[a.ty].canon ELSE k0
        kind == IF k1 = "ELABORATED" THEN cindex.types[a.ty].canon ELSE k1
    IN IF kind = "ENUM"
       THEN Returned("::sapi::v::IntBase<" \o Spelling(a.ty) \o ">")
       ELSE IF kind \in {"CONSTANTARRAY", "INCOMPLETEARRAY"}
       THEN Returned("::sapi::v::Reg<" \o Spelling(a.ty) \o ">")
       ELSE IF kind = "LVALUEREFERENCE"
       THEN Returned("LVALUEREFERENCE::NOT_SUPPORTED")
       ELSE IF kind = "RVALUEREFERENCE"
       THEN Returned("RVALUEREFERENCE::NOT_SUPPORTED")
       ELSE IF kind \in {"RECORD", "ELABORATED"}
       THEN Raised("ValueError", a, kind)
       ELSE IF kind \notin DOMAIN TYPE_MAPPING
       THEN Raised("KeyError", a, kind)
       ELSE Returned(TYPE_MAPPING[kind])

\* ArgumentType.wrapped (when mapped_type returns): the pieces of the text
wrapped(a) == <<mapped_type(a).value, " ", a.name, "_((", a.name, "))">>

\* A variant of is_mangled that finds no function mangled: C3 is sensitive
\* to it.
IsMangledNever(f) == FALSE

\* Function.is_mangled
is_mangled(f) == cindex.functions[f.cursor].mangled # cindex.functions[f.cursor].name

\* Function.__hash__: the hash of the cursor's USR (the USR stands for it).
FunctionHash(f) == cindex.functions[f.cursor].usr

\* Function.__eq__
FunctionEq(f, g) == cindex.functions[f.cursor].mangled = cindex.functions[g.cursor].mangled

\* `f in S` for a Python set S of Functions: same hash and equal.
FunctionIn(f, S) == \E g \in S : FunctionHash(g) = FunctionHash(f) /\ FunctionEq(g, f)

\* set.add
FunctionAdd(S, f) == IF FunctionIn(f, S) THEN S ELSE S \cup {f}

\* Function.get_related_types(processed): given tells whether the caller
\* passed a set; without one every walk starts from a fresh set.  Returns
\* [result, u].
\* result.update(r) for r the [result, u] a walk returned
ResultUpdate(result, r) == [result |-> TypeUpdate(result, r.result), u |-> r.u]

RECURSIVE FunctionArgsLoop(_, _, _, _, _)
FunctionArgsLoop(f, given, processed, i, acc) ==
  IF i > Len(argument_types(f)) THEN acc
  ELSE LET start == IF given THEN acc.result ELSE {}
       IN FunctionArgsLoop(f, given, processed, i + 1,
            ResultUpdate(acc.result,
                         get_related_types(f.tu, argument_types(f)[i].ty,
                                           [result |-> start, u |-> acc.u], FALSE)))

Function_get_related_types(f, given, processed, u) ==
  LET start == IF given THEN processed ELSE {}
      r0 == get_related_types(f.tu, FunctionResult(f).ty,
                              [result |-> start, u |-> u], FALSE)
  IN FunctionArgsLoop(f, given, processed, 1, r0)

--------------------------------------------------------------------------
(* class OutputLine and _stringify_tokens.  A token is [line, spelling].   *)

Token(line, spelling) == [line |-> line, spelling |-> spelling]

\* cursor.get_tokens(): every declaration of the headers is written on one
\* line, the line of its extent's start.
Tokens(c) ==
  [i \in 1..Len(cindex.cursors[c].tokens) |-> Token(cindex.cursors[c].lo, cindex.cursors[c].tokens[i])]

\* OutputLine._process_token
_process_token(ol, t) ==
  LET o1 == IF t.spelling = "#" THEN [ol EXCEPT !.define = TRUE]
            ELSE IF t.spelling = "{" THEN [ol EXCEPT !.next_tab = @ + 1]
            ELSE IF t.spelling = "}"
            THEN [ol EXCEPT !.tab = @ - 1, !.next_tab = @ - 1]
            ELSE ol
      is_bracket == t.spelling = "("
      is_macro == Len(ol.spellings) = 1 /\ ol.spellings[1] = "#"
      sp == IF ol.spellings # <<>> /\ ~is_bracket /\ ~is_macro
            THEN Append(ol.spellings, " ")
            ELSE ol.spellings
  IN [o1 EXCEPT !.spellings = Append(sp, t.spelling)]

RECURSIVE OutputLineLoop(_, _, _)
OutputLineLoop(ol, tokens, i) ==
  IF i > Len(tokens) THEN ol
  ELSE OutputLineLoop(_process_token(ol, tokens[i]), tokens, i + 1)

\* OutputLine.__init__
OutputLine(tab, tokens) ==
  OutputLineLoop([spellings |-> <<>>, define |-> FALSE, tab |-> tab,
                  next_tab |-> tab], tokens, 1)

RECURSIVE Tabs(_)
Tabs(n) == IF n <= 0 THEN "" ELSE "\t" \o Tabs(n - 1)

\* OutputLine.__str__
OutputLineStr(ol) ==
  (IF ~ol.define THEN Tabs(ol.tab) ELSE "") \o Concat(ol.spellings)

\* itertools.groupby(tokens, line): the runs of adjacent tokens of one line
RECURSIVE GroupByLine(_)
GroupByLine(tokens) ==
  IF tokens = <<>> THEN <<>>
  ELSE LET first ==
             CHOOSE k \in 1..Len(tokens) :
               /\ \A i \in 1..k : tokens[i].line = tokens[1].line
               /\ k = Len(tokens) \/ tokens[k + 1].line # tokens[1].line
       IN <<SubSeq(tokens, 1, first)>> \o
          GroupByLine(SubSeq(tokens, first + 1, Len(tokens)))

RECURSIVE StringifyLoop(_, _, _)
StringifyLoop(groups, i, previous_next_tab) ==
  IF i > Len(groups) THEN <<>>
  ELSE LET line == OutputLine(previous_next_tab, groups[i])
       IN <<OutputLineStr(line)>> \o StringifyLoop(groups, i + 1, line.next_tab)

_stringify_tokens(tokens, separator) ==
  Join(separator, StringifyLoop(GroupByLine(tokens), 1, 0))

\* Type.stringify
stringify(t) == _stringify_tokens(Tokens(_get_declaration(t.ty)), "\n")

--------------------------------------------------------------------------
(* class _TranslationUnit.  The record of a translation unit holds path,   *)
(* limit_scan_depth, processed (_processed), forward_decls (a dict, from   *)
(* the USR its key Type hashes and compares by to the cursor), functions,  *)
(* order (from cursor hash to index), defines, required_defines and        *)
(* types_to_skip.                                                          *)

\* _TranslationUnit.__init__
NewTranslationUnit(path, limit_scan_depth) ==
  [path |-> path, limit_scan_depth |-> limit_scan_depth, processed |-> FALSE,
   forward_decls |-> <<>>, functions |-> {}, order |-> <<>>, defines |-> <<>>,
   required_defines |-> {}, types_to_skip |-> {}]

CursorKind(c) == IF c \in DOMAIN cindex.functions THEN "FUNCTION_DECL" ELSE cindex.cursors[c].kind

CursorFile(c) == IF c \in DOMAIN cindex.functions THEN cindex.functions[c].file ELSE cindex.cursors[c].file

\* A variant of is_declaration that leaves the typedef declarations out:
\* C28 is sensitive to it.
IsTagDeclaration(kind) ==
  kind \in {"STRUCT_DECL", "UNION_DECL", "CLASS_DECL", "ENUM_DECL", "FUNCTION_DECL"}

\* cursor.kind.is_declaration()
is_declaration(kind) ==
  kind \in {"TYPEDEF_DECL", "STRUCT_DECL", "UNION_DECL", "CLASS_DECL",
            "ENUM_DECL", "FUNCTION_DECL"}

\* _TranslationUnit._walk_preorder: the cursors of the included header, then
\* those of the top-level file, each file's in the order they are written.
FileWalk(file, decls) ==
  HeaderWalk[file] \o
  SelectSeq(FuncOrder, LAMBDA c : c \in decls /\ cindex.functions[c].file = file)

_walk_preorder(n, decls) == FileWalk("common.h", decls) \o FileWalk(TuPath[n], decls)

\* cursor.type of a struct declaration: the record type of its USR
CursorType(c) ==
  CHOOSE ty \in DOMAIN cindex.types :
    cindex.types[ty].kind = "RECORD" /\ cindex.cursors[cindex.types[ty].decl].usr = cindex.cursors[c].usr

\* A variant of ProcessCursor that adds the functions of every file, whatever
\* limit_scan_depth is: C15 is sensitive to it.
ProcessCursorOfAnyFile(u, n, cursor, i) ==
  LET kind == CursorKind(cursor) IN
  IF kind = "UNDECODABLE" THEN u
  ELSE
    LET u1 == IF is_declaration(kind)
              THEN [u EXCEPT !.order = (cursor :> i) @@ @]
              ELSE u
        u2 == IF kind = "MACRO_DEFINITION" /\ CursorFile(cursor) # "none"
              THEN [u1 EXCEPT !.order = (cursor :> i) @@ @,
                              !.defines = (cindex.cursors[cursor].spelling :> cursor) @@ @]
              ELSE u1
        u3 == IF kind = "STRUCT_DECL" /\ ~cindex.cursors[cursor].is_def
              THEN [u2 EXCEPT !.forward_decls =
                      (TypeUsr(MkType(n, CursorType(cursor))) :> cursor) @@ @]
              ELSE u2
    IN IF kind = "FUNCTION_DECL" /\ cindex.functions[cursor].linkage # "INTERNAL"
       THEN [u3 EXCEPT !.functions = FunctionAdd(u3.functions, MkFunction(n, cursor))]
       ELSE u3

\* One turn of the loop of _TranslationUnit._process: cursor number i.
ProcessCursor(u, n, cursor, i) ==
  LET kind == CursorKind(cursor) IN
  IF kind = "UNDECODABLE" THEN u
  ELSE
    LET u1 == IF is_declaration(kind)
              THEN [u EXCEPT !.order = (cursor :> i) @@ @]
              ELSE u
        u2 == IF kind = "MACRO_DEFINITION" /\ CursorFile(cursor) # "none"
              THEN [u1 EXCEPT !.order = (cursor :> i) @@ @,
                              !.defines = (cindex.cursors[cursor].spelling :> cursor) @@ @]
              ELSE u1
        u3 == IF kind = "STRUCT_DECL" /\ ~cindex.cursors[cursor].is_def
              THEN [u2 EXCEPT !.forward_decls =
                      (TypeUsr(MkType(n, CursorType(cursor))) :> cursor) @@ @]
              ELSE u2
    IN IF kind = "FUNCTION_DECL" /\ cindex.functions[cursor].linkage # "INTERNAL"
       THEN IF u.limit_scan_depth
            THEN IF CursorFile(cursor) = u.path
                 THEN [u3 EXCEPT !.functions = FunctionAdd(u3.functions, MkFunction(n, cursor))]
                 ELSE u3
            ELSE [u3 EXCEPT !.functions = FunctionAdd(u3.functions, MkFunction(n, cursor))]
       ELSE u3

\* The loop of _TranslationUnit._process over the cursors of the walk from
\* turn i on, cursor number i - 1 being walk[i].  The record v left by one
\* turn is a value before the next turn starts.
RECURSIVE ProcessLoop(_, _, _, _)
ProcessLoop(u, n, walk, i) ==
  IF i > Len(walk) THEN u
  ELSE CHOOSE r \in { ProcessLoop(v, n, walk, i + 1) :
                        v \in {ProcessCursor(u, n, walk[i], i - 1)} } : TRUE

\* _TranslationUnit._process
_process(u, n, decls) ==
  IF ~u.processed
  THEN CHOOSE r \in { ProcessLoop([u EXCEPT !.processed = TRUE], n, walk, 1) :
                        walk \in {_walk_preorder(n, decls)} } : TRUE
  ELSE u

\* _TranslationUnit.get_functions: the record after the call (the value
\* returned is its functions).
get_functions(u, n, decls) == IF ~u.processed THEN _process(u, n, decls) ELSE u

--------------------------------------------------------------------------
(* get_header_guard.  A path is a sequence of characters.                  *)

\* the characters of the paths, lower case and upper case
Lower == <<"a", "b", "e", "f", "g", "h", "i", "l", "n", "s", "t", "x">>

Upper == <<"A", "B", "E", "F", "G", "H", "I", "L", "N", "S", "T", "X">>

\* str.upper, one character
UpperChar(c) ==
  IF \E i \in 1..Len(Lower) : Lower[i] = c
  THEN Upper[CHOOSE i \in 1..Len(Lower) : Lower[i] = c]
  ELSE c

\* sub occurs in text at position i
OccursAt(text, sub, i) ==
  /\ i >= 1 /\ i + Len(sub) - 1 <= Len(text)
  /\ SubSeq(text, i, i + Len(sub) - 1) = sub

\* `sub in text`
Contains(text, sub) == \E i \in 1..Len(text) : OccursAt(text, sub, i)

\* str.endswith
EndsWith(text, sub) == OccursAt(text, sub, Len(text) - Len(sub) + 1)

\* str.split(sep): the pieces between the occurrences of sep, left to right
RECURSIVE Split(_, _)
Split(text, sep) ==
  IF ~Contains(text, sep) THEN <<text>>
  ELSE LET i == CHOOSE k \in 1..Len(text) :
                  OccursAt(text, sep, k) /\ \A j \in 1..(k - 1) : ~OccursAt(text, sep, j)
       IN <<SubSeq(text, 1, i - 1)>> \o
          Split(SubSeq(text, i + Len(sep), Len(text)), sep)

\* str.replace(old, new) for one-character old and new
ReplaceChar(text, old, new) ==
  [i \in 1..Len(text) |-> IF text[i] = old THEN new ELSE text[i]]

GenfilesDir == <<"g", "e", "n", "f", "i", "l", "e", "s", "/">>

GenSuffix == <<".", "g", "e", "n">>

\* get_header_guard for a path that is not empty (it raises ValueError on
\* the empty path)
get_header_guard(path) ==
  LET p1 == IF Contains(path, GenfilesDir) THEN Split(path, GenfilesDir)[2] ELSE path
      p2 == IF EndsWith(p1, GenSuffix) THEN Split(p1, GenSuffix)[1] ELSE p1
      up == [i \in 1..Len(p2) |-> UpperChar(p2[i])]
  IN ReplaceChar(ReplaceChar(ReplaceChar(up, ".", "_"), "-", "_"), "/", "_") \o <<"_">>

--------------------------------------------------------------------------
(* class Generator.  A line of the generated text is the sequence of the   *)
(* pieces a format call puts together; the text is the lines joined by     *)
(* newlines.                                                               *)

Line(pieces) == pieces

AUTO_GENERATED ==
  <<Line(<<"// AUTO-GENERATED by the Sandboxed API generator.">>),
    Line(<<"// Edits will be discarded when regenerating this file.">>),
    Line(<<"">>)>>

GUARD_START(guard) ==
  <<Line(<<"#ifndef ", guard>>), Line(<<"#define ", guard>>)>>

GUARD_END(guard) == <<Line(<<"#endif  // ", guard>>)>>

EMBED_INCLUDE(path) == <<Line(<<"#include \"", path, "\"">>)>>

EMBED_CLASS(name, embed) ==
  <<Line(<<"class ", name, "Sandbox : public ::sapi::Sandbox {">>),
    Line(<<" public:">>),
    Line(<<"  ", name, "Sandbox() : ::sapi::Sandbox(", embed, "_embed_create()) {}">>),
    Line(<<"};">>)>>

\* The list a Python variable holds, or None.
None == [none |-> TRUE, list |-> <<>>]

Some(list) == [none |-> FALSE, list |-> list]

\* A variant of Selected that ignores func_names: C4 is sensitive to it.
SelectedAll(u, func_names) == u.functions

\* The functions a translation unit contributes in Generator._get_functions
Selected(u, func_names) ==
  {f \in u.functions : func_names = {} \/ FunctionName(f) \in func_names}

\* The place of translation unit n in the Generator's list
TuPlace(translation_units, n) ==
  CHOOSE i \in 1..Len(translation_units) :
    translation_units[i] = n /\ \A j \in 1..(i - 1) : translation_units[j] # n

\* Generator._get_functions when no list is cached yet: tus are the records
\* of the translation units after get_functions.  The result is the set of
\* the outcomes [functions, tus] for the lists the call can return:
\* list(set(...)) puts the functions in any order, and the sort by name that
\* follows is stable.
ComputeFunctions(translation_units, tus, func_names) ==
  LET all == UNION {Selected(tus[n], func_names) : n \in Range(translation_units)}
      nonmangled == {f \in all : ~is_mangled(f)}
      \* list(set(...)) keeps, of the functions with one hash that are equal,
      \* the one that comes first in the concatenated list
      unique ==
        {f \in nonmangled :
           ~\E g \in nonmangled :
              /\ g # f /\ FunctionHash(g) = FunctionHash(f) /\ FunctionEq(g, f)
              /\ TuPlace(translation_units, g.tu) < TuPlace(translation_units, f.tu)}
  IN {[functions |-> q, tus |-> tus] :
        q \in {p \in Perms(unique) :
                 \A i, j \in 1..Len(p) :
                   i < j => NameRank(FunctionName(p[i])) <= NameRank(FunctionName(p[j]))}}

\* A variant of _get_functions that computes the list at every call: C29
\* is sensitive to it.
GetFunctionsAfresh(cached, translation_units, tus, decls, func_names) ==
  ComputeFunctions(translation_units,
                   [n \in DOMAIN tus |->
                      IF n \in Range(translation_units)
                      THEN get_functions(tus[n], n, decls) ELSE tus[n]],
                   func_names)

\* Generator._get_functions: the set of the outcomes [functions, tus] of a
\* call, functions being the value returned and cached.
_get_functions(cached, translation_units, tus, decls, func_names) ==
  IF ~cached.none THEN {[functions |-> cached.list, tus |-> tus]}
  ELSE ComputeFunctions(translation_units,
                        [n \in DOMAIN tus |->
                           IF n \in Range(translation_units)
                           THEN get_functions(tus[n], n, decls) ELSE tus[n]],
                        func_names)

\* The key sorted() compares Types by (Type.__lt__)
OrderKey(u, t) == u.order[_get_declaration(t.ty)]

\* A variant of SortTypes that sorts in descending order: C10 is sensitive
\* to it.
RECURSIVE SortTypesDescending(_, _)
SortTypesDescending(u, S) ==
  IF S = {} THEN <<>>
  ELSE LET m == CHOOSE x \in S :
                  \A y \in S : u.order[_get_declaration(x.ty)] >=
                               u.order[_get_declaration(y.ty)]
       IN <<m>> \o SortTypesDescending(u, S \ {m})

\* sorted(S) for a set S of Types of one translation unit
RECURSIVE SortTypes(_, _)
SortTypes(u, S) ==
  IF S = {} THEN <<>>
  ELSE IF Cardinality(S) = 1 THEN <<CHOOSE x \in S : TRUE>>
  ELSE LET m == CHOOSE x \in S : \A y \in S : OrderKey(u, x) <= OrderKey(u, y)
       IN <<m>> \o SortTypes(u, S \ {m})

\* sorted() fails with KeyError when it compares a Type whose declaration
\* has no index
SortRaises(u, S) ==
  Cardinality(S) >= 2 /\ \E x \in S : _get_declaration(x.ty) \notin DOMAIN u.order

\* The loop of Generator._get_related_types over the functions fs.
\* st is [processed, types, types_to_skip, tus, raised].
RECURSIVE RelatedLoop(_, _, _)
\* One turn of the loop: r is the [result, u] that f.get_related_types()
\* returned for the function fs[i]
RelatedTurn(fs, i, st, r) ==
  LET fresh == {x \in r.result : ~TypeIn(x, st.processed)}
      tus1 == [st.tus EXCEPT ![fs[i].tu] = r.u]
  IN IF SortRaises(r.u, fresh)
     THEN [st EXCEPT !.tus = tus1, !.raised = TRUE]
     ELSE RelatedLoop(fs, i + 1,
            [processed |-> TypeUpdate(st.processed, r.result),
             types |-> st.types \o SortTypes(r.u, fresh),
             types_to_skip |-> TypeUpdate(st.types_to_skip, r.u.types_to_skip),
             tus |-> tus1,
             raised |-> FALSE])

RelatedLoop(fs, i, st) ==
  IF i > Len(fs) \/ st.raised THEN st
  ELSE RelatedTurn(fs, i, st,
                   Function_get_related_types(fs[i], FALSE, {}, st.tus[fs[i].tu]))

\* What Generator._get_related_types returns when its loop ends in st:
\* the types that are not in types_to_skip
RelatedReturn(functions, st) ==
  [functions |-> functions, tus |-> st.tus, raised |-> st.raised,
   types |-> SelectSeq(st.types, LAMBDA t : ~TypeIn(t, st.types_to_skip))]

\* A variant of _get_related_types whose loop is over the functions that
\* _get_functions gives for an empty func_names: C22 is sensitive to it.
RelatedTypesOfEveryFunction(cached, translation_units, tus, decls, func_names) ==
  {[RelatedReturn(h.functions,
                  RelatedLoop(h.functions, 1,
                              [processed |-> {}, types |-> <<>>, types_to_skip |-> {},
                               tus |-> h.tus, raised |-> FALSE]))
      EXCEPT !.functions = g.functions] :
   g \in _get_functions(cached, translation_units, tus, decls, func_names),
   h \in _get_functions(None, translation_units, tus, decls, {})}

\* Generator._get_related_types: the set of the outcomes
\* [functions, tus, raised, types] of a call.
_get_related_types(cached, translation_units, tus, decls, func_names) ==
  {RelatedReturn(g.functions,
                 RelatedLoop(g.functions, 1,
                             [processed |-> {}, types |-> <<>>, types_to_skip |-> {},
                              tus |-> g.tus, raised |-> FALSE])) :
   g \in _get_functions(cached, translation_units, tus, decls, func_names)}

\* sorted(cursors, key=order) for the macro definitions of one translation unit
RECURSIVE SortCursors(_, _)
SortCursors(u, S) ==
  IF S = {} THEN <<>>
  ELSE LET m == CHOOSE x \in S : \A y \in S : u.order[x] <= u.order[y]
       IN <<m>> \o SortCursors(u, S \ {m})

\* Generator._get_defines
RECURSIVE _get_defines(_, _, _)
_get_defines(translation_units, tus, i) ==
  IF i > Len(translation_units) THEN <<>>
  ELSE LET u == tus[translation_units[i]]
           tmp_result == {u.defines[name] : name \in u.required_defines \cap DOMAIN u.defines}
           sorted == SortCursors(u, tmp_result)
       IN [k \in 1..Len(sorted) |->
             Line(<<"#define ", _stringify_tokens(Tokens(sorted[k]), " \\\n")>>)]
          \o _get_defines(translation_units, tus, i + 1)

\* Generator._get_forward_decls: st is [forward_decls, result, done]
RECURSIVE ForwardTypesLoop(_, _, _)
ForwardTypesLoop(types, k, st) ==
  IF k > Len(types) THEN st
  ELSE LET t == types[k] IN
       IF TypeUsr(t) \in DOMAIN st.forward_decls /\ ~TypeIn(t, st.done)
       THEN ForwardTypesLoop(types, k + 1,
              [st EXCEPT
                 !.result = Append(@, Line(<<_stringify_tokens(
                                Tokens(st.forward_decls[TypeUsr(t)]), "\n"), ";">>)),
                 !.done = TypeAdd(@, t)])
       ELSE ForwardTypesLoop(types, k + 1, st)

RECURSIVE ForwardTusLoop(_, _, _, _, _)
ForwardTusLoop(translation_units, tus, types, i, st) ==
  IF i > Len(translation_units) THEN st
  ELSE ForwardTusLoop(translation_units, tus, types, i + 1,
         ForwardTypesLoop(types, 1,
           [st EXCEPT !.forward_decls =
              tus[translation_units[i]].forward_decls @@ @]))

\* The forward-declaration maps of all translation units in one
RECURSIVE AllForwardDecls(_, _, _)
AllForwardDecls(translation_units, tus, i) ==
  IF i > Len(translation_units) THEN <<>>
  ELSE AllForwardDecls(translation_units, tus, i + 1) @@
       tus[translation_units[i]].forward_decls

\* A variant of _get_forward_decls that goes through the types once, with
\* the maps of all translation units: C13 is sensitive to it.
ForwardDeclsInOnePass(translation_units, tus, types) ==
  ForwardTypesLoop(types, 1,
                   [forward_decls |-> AllForwardDecls(translation_units, tus, 1),
                    result |-> <<>>, done |-> {}]).result

_get_forward_decls(translation_units, tus, types) ==
  ForwardTusLoop(translation_units, tus, types, 1,
                 [forward_decls |-> <<>>, result |-> <<>>, done |-> {}]).result

\* The first failure of mapped_type in a sequence of ArgumentTypes, or none
FirstRaise(as) ==
  IF \E i \in 1..Len(as) : ~mapped_type(as[i]).ok
  THEN mapped_type(as[CHOOSE i \in 1..Len(as) :
                        /\ ~mapped_type(as[i]).ok
                        /\ \A j \in 1..(i - 1) : mapped_type(as[j]).ok])
  ELSE Returned("")

\* Generator._format_function: [ok, lines, error]; the text returned is the
\* lines joined by newlines.
_format_function(f) ==
  LET result == FunctionResult(f)
      by_value == SelectSeq(argument_types(f), LAMBDA a : ~is_sugared_ptr(a.ty))
      raise == FirstRaise(<<result>> \o by_value)
      arguments == Join(", ", [i \in 1..Len(argument_types(f)) |->
                                 ArgumentStr(argument_types(f)[i])])
      locals == [i \in 1..Len(by_value) |->
                   Line(<<"    ">> \o wrapped(by_value[i]) \o <<";">>)]
      call == IF call_arguments(f) # <<>> THEN <<"">> \o call_arguments(f) ELSE <<>>
      return_status ==
        IF ~is_void(result.ty)
        THEN IF is_sugared_enum(result.ty)
             THEN "return static_cast<" \o Spelling(result.ty) \o ">(ret.GetValue());"
             ELSE "return ret.GetValue();"
        ELSE "return absl::OkStatus();"
  IN IF ~raise.ok THEN [ok |-> FALSE, lines |-> <<>>, error |-> raise.error]
     ELSE [ok |-> TRUE, error |-> NoError,
           lines |->
             <<Line(<<"  // ", original_definition(f)>>),
               Line(<<"  ", ReturnStr(result), " ", FunctionName(f), "(", arguments, ") {">>),
               Line(<<"    ", mapped_type(result).value, " ret;">>)>>
             \o locals \o
             <<Line(<<"">>),
               Line(<<"    SAPI_RETURN_IF_ERROR(sandbox_->Call(\"", FunctionName(f),
                      "\", &ret", Join(", ", call), "));">>),
               Line(<<"    ", return_status>>),
               Line(<<"  }">>)>>]

\* The methods of format_template, each after an empty line
\* A method m appended after an empty line, before the methods rest: the
\* first that raised ends the loop
AppendMethod(m, rest) ==
  IF ~m.ok THEN m
  ELSE IF ~rest.ok THEN rest
  ELSE [ok |-> TRUE, error |-> NoError,
        lines |-> <<Line(<<"">>)>> \o m.lines \o rest.lines]

RECURSIVE FormatFunctions(_, _)
FormatFunctions(functions, i) ==
  IF i > Len(functions) THEN [ok |-> TRUE, lines |-> <<>>, error |-> NoError]
  ELSE AppendMethod(_format_function(functions[i]), FormatFunctions(functions, i + 1))

\* os.path.join(embed_dir, embed_name) for a relative embed_name and an
\* embed_dir that does not end with a slash
PathJoin(dir, name) == IF dir = "" THEN name ELSE dir \o "/" \o name

\* A variant of reversed() that keeps the order: C21 is sensitive to it.
Unreversed(q) == q

\* reversed(q)
Reverse(q) == [i \in 1..Len(q) |-> q[Len(q) + 1 - i]]

\* The lines Generator.format_template appends to result, methods being
\* what formatting the functions gave
TemplateLines(name, methods, related_types, namespaces, embed_dir, embed_name, output_file) ==
  LET header_guard ==
        IF output_file # <<>> THEN Concat(get_header_guard(output_file)) ELSE ""
  IN IF ~methods.ok THEN methods
     ELSE [ok |-> TRUE, error |-> NoError,
           lines |->
             AUTO_GENERATED
             \o (IF header_guard # "" THEN GUARD_START(header_guard) ELSE <<>>)
             \o <<Line(<<"#include \"absl/status/status.h\"">>),
                  Line(<<"#include \"absl/status/statusor.h\"">>),
                  Line(<<"#include \"sandboxed_api/sandbox.h\"">>),
                  Line(<<"#include \"sandboxed_api/util/status_macros.h\"">>),
                  Line(<<"#include \"sandboxed_api/vars.h\"">>)>>
             \o (IF embed_name # <<>>
                 THEN EMBED_INCLUDE(PathJoin(embed_dir, Concat(embed_name)) \o "_embed.h")
                 ELSE <<>>)
             \o (IF namespaces # <<>>
                 THEN <<Line(<<"">>)>> \o
                      [i \in 1..Len(namespaces) |->
                         Line(<<"namespace ", namespaces[i], " {">>)]
                 ELSE <<>>)
             \o (IF related_types # <<>> THEN <<Line(<<"">>)>> \o related_types ELSE <<>>)
             \o <<Line(<<"">>)>>
             \o (IF embed_name # <<>>
                 THEN EMBED_CLASS(name, Concat(ReplaceChar(embed_name, "-", "_")))
                 ELSE <<>>)
             \o <<Line(<<"class ", name, "Api {">>),
                  Line(<<" public:">>),
                  Line(<<"  explicit ", name, "Api(::sapi::Sandbox* sandbox) : sandbox_(sandbox) {}">>),
                  Line(<<"  // Deprecated">>),
                  Line(<<"  ::sapi::Sandbox* GetSandbox() const { return sandbox(); }">>),
                  Line(<<"  ::sapi::Sandbox* sandbox() const { return sandbox_; }">>)>>
             \o methods.lines
             \o <<Line(<<"">>),
                  Line(<<" private:">>),
                  Line(<<"  ::sapi::Sandbox* sandbox_;">>),
                  Line(<<"};">>),
                  Line(<<"">>)>>
             \o (IF namespaces # <<>>
                 THEN [i \in 1..Len(namespaces) |->
                         Line(<<"}  // namespace ", Reverse(namespaces)[i]>>)]
                 ELSE <<>>)
             \o (IF header_guard # "" THEN GUARD_END(header_guard) ELSE <<>>)
             \o <<Line(<<"">>)>>]

\* Generator.format_template: [ok, lines, error]; the text returned is the
\* lines joined by newlines.  embed_name and output_file are sequences of
\* characters, empty for None.
format_template(name, functions, related_types, namespaces, embed_dir, embed_name, output_file) ==
  TemplateLines(name, FormatFunctions(functions, 1), related_types, namespaces,
                embed_dir, embed_name, output_file)

\* What Generator.generate gives when _get_related_types gave r and
\* format_template gave text
GenerateReturn(r, text) ==
  [functions |-> r.functions, tus |-> r.tus,
   status |-> IF text.ok THEN "returned" ELSE "raised",
   lines |-> text.lines, types |-> r.types, error |-> text.error]

\* Generator.generate: the set of the outcomes
\* [functions, tus, status, lines, error, types] of a call: status is
\* "returned" with the lines of the text, or "raised" with the error; types
\* is the list _get_related_types returned.  namespace is the sequence of
\* the names that "::" separates in the argument, empty for None.
generate(cached, translation_units, tus, decls, name, function_names, namespace, output_file, embed_dir, embed_name) ==
  {IF r.raised
   THEN [functions |-> r.functions, tus |-> r.tus, status |-> "raised",
         lines |-> <<>>, types |-> <<>>,
         error |-> [NoError EXCEPT !.type = "KeyError", !.kind = "order"]]
   ELSE
     LET forward_decls == _get_forward_decls(translation_units, r.tus, r.types)
         related_types == [i \in 1..Len(r.types) |->
                             Line(<<stringify(r.types[i]), ";">>)]
         defines == _get_defines(translation_units, r.tus, 1)
     IN GenerateReturn(r, format_template(name, r.functions,
                                          defines \o forward_decls \o related_types,
                                          namespace, embed_dir, embed_name,
                                          output_file)) :
   r \in _get_related_types(cached, translation_units, tus, decls, function_names)}

--------------------------------------------------------------------------
(* The program: Analyzer.process_files wraps the files of TuPath in        *)
(* translation units, a Generator is built from a list of them, and its    *)
(* client calls _get_functions, _get_related_types and generate.           *)

VARIABLES
  decls,              \* the function declarations written in the headers
  translation_units,  \* Generator.translation_units
  tu,                 \* the record of every _TranslationUnit
  functions,          \* Generator.functions
  built_for,          \* the func_names of the call that computed functions
  call,               \* the last call on the Generator and what it returned
  m_arg,              \* an ArgumentType
  m_out,              \* what its mapped_type property gave
  input,              \* the arguments of a call of one function on its own
  output              \* what that call gave

vars == <<cindex, decls, translation_units, tu, functions, built_for, call, m_arg, m_out, input, output>>

NoCall ==
  [op |-> "", func_names |-> {}, types |-> <<>>, status |-> "", lines |-> <<>>,
   error |-> NoError]

\* The headers that can be written: at most MaxFuncs of the declarations
Inputs == {D \in SUBSET FuncIds : Cardinality(D) <= MaxFuncs}

\* The lists of translation units a Generator is built from
TuLists == {<<1>>, <<1, 2>>, <<2, 1>>}

\* The func_names a client passes: None, or the name of a declaration
Whitelists(D) == {{}} \cup {{cindex.functions[c].name} : c \in D}

NoArgument == MkArgumentType(MkFunction(1, "F_fa"), 0, "INVALID", "")

\* No function is called on its own
NoInput == [op |-> ""]

\* A call that has not returned yet, one that returned and one that raised
Pending == [status |-> "pending"]

Gave(value) == [status |-> "returned", value |-> value]

Failed(error) == [status |-> "raised", error |-> error]

\* The types, the cursors and the function declarations libclang gives for
\* the headers
Parsed ==
  [types |-> TypeTab, cursors |-> DeclTab, functions |-> FuncTab @@ RecordFuncTab]

\* Analyzer.process_files(input_paths, compile_flags) and Generator(tus)
Init ==
  /\ cindex = Parsed
  /\ decls \in Inputs
  /\ translation_units \in TuLists
  /\ tu = [n \in TUs |-> NewTranslationUnit(TuPath[n], FALSE)]
  /\ functions = None
  /\ built_for = {}
  /\ call = NoCall
  /\ m_arg = NoArgument
  /\ m_out = Returned("")
  /\ input = NoInput
  /\ output = Pending

\* The func_names Generator.functions was computed for, after a call
BuiltFor(func_names) == IF functions.none THEN func_names ELSE built_for

\* Generator._get_functions(func_names)
GetFunctions(func_names) ==
  /\ \E r \in _get_functions(functions, translation_units, tu, decls, func_names) :
       /\ functions' = Some(r.functions)
       /\ tu' = r.tus
  /\ built_for' = BuiltFor(func_names)
  /\ call' = [NoCall EXCEPT !.op = "_get_functions", !.func_names = func_names,
                            !.status = "returned"]
  /\ UNCHANGED <<cindex, decls, translation_units, m_arg, m_out, input, output>>

\* Generator._get_related_types(func_names)
GetRelatedTypes(func_names) ==
  /\ \E r \in _get_related_types(functions, translation_units, tu, decls, func_names) :
       /\ functions' = Some(r.functions)
       /\ tu' = r.tus
       /\ call' = [NoCall EXCEPT !.op = "_get_related_types", !.func_names = func_names,
                                 !.status = IF r.raised THEN "raised" ELSE "returned",
                                 !.types = r.types]
  /\ built_for' = BuiltFor(func_names)
  /\ UNCHANGED <<cindex, decls, translation_units, m_arg, m_out, input, output>>

\* Generator.generate("Test", function_names)
Generate(function_names) ==
  /\ \E r \in generate(functions, translation_units, tu, decls, "Test",
                       function_names, <<>>, <<>>, "", <<>>) :
       /\ functions' = Some(r.functions)
       /\ tu' = r.tus
       /\ call' = [op |-> "generate", func_names |-> function_names, types |-> r.types,
                   status |-> r.status, lines |-> r.lines, error |-> r.error]
  /\ built_for' = BuiltFor(function_names)
  /\ UNCHANGED <<cindex, decls, translation_units, m_arg, m_out, input, output>>

Next ==
  \/ \E func_names \in Whitelists(decls) : GetFunctions(func_names)
  \/ \E func_names \in Whitelists(decls) : GetRelatedTypes(func_names)
  \/ \E function_names \in Whitelists(decls) : Generate(function_names)

Spec == Init /\ [][Next]_vars

--------------------------------------------------------------------------
(* ArgumentType.mapped_type on its own: an ArgumentType is built for a     *)
(* function, a position and any type handle, and the property is read.     *)

Unset == [ok |-> FALSE, value |-> "unset", error |-> NoError]

InitMapped ==
  /\ cindex = Parsed
  /\ decls = {}
  /\ translation_units = <<1>>
  /\ tu = [n \in TUs |-> NewTranslationUnit(TuPath[n], FALSE)]
  /\ functions = None
  /\ built_for = {}
  /\ call = NoCall
  /\ \E c \in {"F_fa", "F_fe"}, pos \in 0..MaxPos, ty \in TypeIds \ {"INVALID"},
        name \in {"", "x"} :
       m_arg = MkArgumentType(MkFunction(1, c), pos, ty, name)
  /\ m_out = Unset
  /\ input = NoInput
  /\ output = Pending

MappedType ==
  /\ m_out = Unset
  /\ m_out' = mapped_type(m_arg)
  /\ UNCHANGED <<cindex, decls, translation_units, tu, functions, built_for, call, m_arg, input, output>>

NextMapped == MappedType

SpecMapped == InitMapped /\ [][NextMapped]_vars

--------------------------------------------------------------------------
(* Vocabulary of the properties *)

\* The cursors that declare a type
TypeDecls ==
  {c \in DOMAIN cindex.cursors :
     cindex.cursors[c].kind \in {"TYPEDEF_DECL", "STRUCT_DECL", "UNION_DECL", "ENUM_DECL"}}

\* The declarations a type handle names: itself when it is a typedef, a
\* record or an enum, those of its pointee, element, parameters and result
\* otherwise
RECURSIVE NamedDecls(_)
NamedDecls(ty) ==
  LET t == cindex.types[ty] IN
  IF t.kind \in {"TYPEDEF", "RECORD", "ENUM"} THEN {t.decl}
  ELSE IF t.kind = "FUNCTIONPROTO"
  THEN NamedDecls(t.result) \cup UNION {NamedDecls(t.args[i]) : i \in 1..Len(t.args)}
  ELSE IF t.kind \in {"ELABORATED", "POINTER", "MEMBERPOINTER", "LVALUEREFERENCE",
                      "RVALUEREFERENCE", "CONSTANTARRAY", "INCOMPLETEARRAY"}
  THEN NamedDecls(t.sub)
  ELSE {}

\* The declarations the declaration c refers to: the target of a typedef,
\* the types of the fields of a record
Referred(c) ==
  IF cindex.cursors[c].kind = "TYPEDEF_DECL" THEN NamedDecls(cindex.cursors[c].underlying)
  ELSE UNION {NamedDecls(cindex.cursors[c].fields[i].type) : i \in 1..Len(cindex.cursors[c].fields)}

\* The declaration r is written inside the declaration c
Inline(r, c) ==
  /\ r # c /\ cindex.cursors[r].file = cindex.cursors[c].file
  /\ cindex.cursors[c].lo <= cindex.cursors[r].lo /\ cindex.cursors[r].hi <= cindex.cursors[c].hi

\* The line of the header that renders the declaration c
TypeLine(c) == Line(<<_stringify_tokens(Tokens(c), "\n"), ";">>)

\* The line defines or forward-declares the type the declaration r declares
Emits(line, r) ==
  \E c \in TypeDecls :
    /\ line = TypeLine(c)
    /\ cindex.cursors[c].usr = cindex.cursors[r].usr \/ Inline(r, c)

\* generate returned a header
Generated == call.op = "generate" /\ call.status = "returned"

--------------------------------------------------------------------------
(* Properties *)

\* C1: in the header generate returns, every type a rendered type
\* declaration refers to is defined or forward-declared on an earlier line,
\* unless it is written inside the referring declaration.
C1_DependencyOrder ==
  Generated =>
    \A i \in 1..Len(call.lines) : \A c \in TypeDecls :
      call.lines[i] = TypeLine(c) =>
        \A r \in Referred(c) :
          ~Inline(r, c) => \E j \in 1..(i - 1) : Emits(call.lines[j], r)

\* The list _get_related_types returned, alone or inside generate
ReturnedTypes ==
  IF call.op \in {"_get_related_types", "generate"} /\ call.status # ""
  THEN call.types ELSE <<>>

\* The types Function.get_related_types gives for a retained function
Closure(f) == Function_get_related_types(f, FALSE, {}, tu[f.tu]).result

Usrs(S) == {TypeUsr(t) : t \in S}

\* C2: the list _get_related_types returns never holds two Types of one
\* declaration USR.
C2_NoDuplicateTypes ==
  \A i, j \in 1..Len(ReturnedTypes) :
    i < j => TypeUsr(ReturnedTypes[i]) # TypeUsr(ReturnedTypes[j])

\* C2 happens: a retained function reaches one record through a
\* const-qualified and an unqualified pointer, and the list holds it.
C2_Witness_ConstAndPlain ==
  /\ call.op = "_get_related_types"
  /\ \E f \in Range(functions.list) :
       /\ {"const_Instance_p", "Instance_p"} \subseteq
            {cindex.functions[f.cursor].args[i].type : i \in 1..Len(cindex.functions[f.cursor].args)}
       /\ \E t \in Range(call.types) : TypeUsr(t) = cindex.cursors["Instance"].usr

\* The function declared by cursor c has a mangled name other than its
\* spelling
Mangled(c) == cindex.functions[c].mangled # cindex.functions[c].name

\* The line is the signature or the sandbox call of a method called name
MethodLineOf(line, name) ==
  \/ Len(line) = 7 /\ line[1] = "  " /\ line[4] = name /\ line[5] = "("
  \/ Len(line) = 5 /\ line[2] = name /\ line[3] = "\", &ret"

\* C3: no function whose mangled name differs from its spelling is in the
\* list _get_functions returns, and generate emits no method for it.
C3_NoMangledFunction ==
  /\ \A i \in 1..Len(functions.list) : ~Mangled(functions.list[i].cursor)
  /\ Generated =>
       \A c \in decls : Mangled(c) =>
         \A i \in 1..Len(call.lines) : ~MethodLineOf(call.lines[i], cindex.functions[c].name)

\* C3 happens: a header was generated for a whitelist that names a mangled
\* function which is in the function set of a translation unit of the list.
C3_Witness_MangledWhitelisted ==
  /\ Generated
  /\ \E c \in decls :
       /\ Mangled(c) /\ built_for = {cindex.functions[c].name}
       /\ \E n \in Range(translation_units) : MkFunction(n, c) \in tu[n].functions

\* The function cursors _get_functions is to return for func_names: those
\* of the function sets of the translation units of the list that are not
\* mangled and that func_names selects
Wanted(tus, func_names) ==
  {f.cursor : f \in
     {g \in UNION {tus[n].functions : n \in Range(translation_units)} :
        /\ ~Mangled(g.cursor)
        /\ func_names = {} \/ cindex.functions[g.cursor].name \in func_names}}

\* The list holds the wanted functions, in ascending order of name
ListsWanted(list, tus, func_names) ==
  /\ {list[i].cursor : i \in 1..Len(list)} = Wanted(tus, func_names)
  /\ \A i, j \in 1..Len(list) :
       i < j => NameRank(cindex.functions[list[i].cursor].name) <=
                NameRank(cindex.functions[list[j].cursor].name)

\* C4 as stated: every call of _get_functions(func_names) returns the
\* non-mangled functions of all translation units that func_names selects,
\* sorted by name.
C4_EveryCallSelects ==
  [][\A func_names \in Whitelists(decls) :
       GetFunctions(func_names) => ListsWanted(functions'.list, tu', func_names)]_vars

\* C4 amended: the call of _get_functions that finds no list computed yet
\* returns the non-mangled functions of all translation units that its
\* func_names selects, sorted by name; built_for is that func_names, and the
\* list stays as that call returned it.
C4_FirstCallSelects ==
  ~functions.none => ListsWanted(functions.list, tu, built_for)

\* C4 happens: _get_functions returned for a whitelist that leaves a
\* non-mangled function of a translation unit out.
C4_Witness_Whitelisted ==
  /\ call.op = "_get_functions" /\ built_for # {}
  /\ Len(functions.list) >= 1
  /\ Wanted(tu, {}) \ Wanted(tu, built_for) # {}

\* C5: the list _get_functions returns never holds two functions of one
\* mangled name.
C5_UniqueMangledNames ==
  \A i, j \in 1..Len(functions.list) :
    i < j => cindex.functions[functions.list[i].cursor].mangled #
             cindex.functions[functions.list[j].cursor].mangled

\* The parameters of the function declared by cursor c, in order, with
\* their positions: [pos, ty, name]
Params(c) ==
  [i \in 1..Len(cindex.functions[c].args) |->
     [pos |-> i - 1, ty |-> cindex.functions[c].args[i].type,
      name |-> IF cindex.functions[c].args[i].name # "" THEN cindex.functions[c].args[i].name
               ELSE "a" \o ToString(i - 1)]]

\* Its result and its parameters
Slots(c) == {[pos |-> 0, ty |-> cindex.functions[c].ret, name |-> "a0"]} \cup Range(Params(c))

\* A record passed by value: a struct or union named directly, through an
\* elaborated name or through a typedef
ByValueRecord(ty) == cindex.types[ty].canon = "RECORD"

Retained == {functions.list[i].cursor : i \in 1..Len(functions.list)}

\* C6: when a retained function takes or returns a record by value,
\* generate fails with the error for an unsupported type, which names a
\* function, a position, a spelling and a location where a retained
\* function does so, and returns no text.
C6_ByValueRecordFails ==
  (call.op = "generate" /\ \E c \in Retained : \E a \in Slots(c) : ByValueRecord(a.ty)) =>
    /\ call.status = "raised" /\ call.lines = <<>>
    /\ call.error.type = "ValueError"
    /\ \E c \in Retained : \E a \in Slots(c) :
         /\ ByValueRecord(a.ty)
         /\ call.error.function = cindex.functions[c].name
         /\ call.error.arg = a.pos
         /\ call.error.spelling = Concat(cindex.types[a.ty].spelling)
         /\ call.error.location = <<cindex.functions[c].file, cindex.functions[c].line>>

\* C6 happens: generate failed for a function that returns a struct through
\* a typedef and for one that takes a struct through an elaborated name.
C6_Witness_ByValue ==
  /\ call.op = "generate" /\ call.status = "raised"
  /\ \E c \in Retained : cindex.types[cindex.functions[c].ret].kind = "TYPEDEF" /\
                          ByValueRecord(cindex.functions[c].ret)
  /\ \E c \in Retained : \E i \in 1..Len(cindex.functions[c].args) :
       cindex.types[cindex.functions[c].args[i].type].kind = "ELABORATED" /\
       ByValueRecord(cindex.functions[c].args[i].type)

\* The kind of a type handle after peeling typedef and elaborated layers
Peeled(ty) ==
  IF cindex.types[ty].kind \in {"TYPEDEF", "ELABORATED"} THEN cindex.types[ty].canon
  ELSE cindex.types[ty].kind

\* Neither a sugared pointer nor an enum, an array, a reference or a record
Plain(ty) ==
  /\ cindex.types[ty].canon # "POINTER"
  /\ Peeled(ty) \notin {"ENUM", "CONSTANTARRAY", "INCOMPLETEARRAY",
                        "LVALUEREFERENCE", "RVALUEREFERENCE", "RECORD"}

\* C7: for a type that is neither a sugared pointer nor an enum, an array,
\* a reference or a record, mapped_type returns the wrapper the scalar table
\* gives for the peeled kind, and fails with the error for an unsupported
\* type when the table has no such kind.
C7_ScalarTable ==
  (m_out # Unset /\ Plain(m_arg.ty)) =>
    LET kind == Peeled(m_arg.ty) IN
    /\ kind \in DOMAIN TYPE_MAPPING =>
         /\ m_out.ok /\ m_out.value = TYPE_MAPPING[kind]
         /\ kind = "VOID" => m_out.value = "::sapi::v::Void"
         /\ kind \in {"CHAR_S", "CHAR_U"} => m_out.value = "::sapi::v::Char"
         /\ kind = "INT" => m_out.value = "::sapi::v::Int"
         /\ kind = "FLOAT" => m_out.value = "::sapi::v::Reg<float>"
         /\ kind = "DOUBLE" => m_out.value = "::sapi::v::Reg<double>"
         /\ kind = "LONGDOUBLE" => m_out.value = "::sapi::v::Reg<long double>"
         /\ kind = "BOOL" => m_out.value = "::sapi::v::Bool"
    /\ kind \notin DOMAIN TYPE_MAPPING =>
         /\ ~m_out.ok /\ m_out.error.type = "KeyError"
         /\ m_out.error.function = cindex.functions[m_arg.function.cursor].name
         /\ m_out.error.arg = m_arg.pos

\* C7 happens: mapped_type was read for a typedef of a scalar at the last
\* position.
C7_Witness_TypedefScalar ==
  /\ m_out # Unset /\ m_out.ok
  /\ cindex.types[m_arg.ty].kind = "TYPEDEF" /\ Plain(m_arg.ty)
  /\ m_arg.pos = MaxPos

\* The first line of the method emitted for the function declared by c
CommentLine(c) ==
  Line(<<"  // ", Concat(cindex.types[cindex.functions[c].ret].spelling) \o " " \o DisplayName(c)>>)

\* The lines i..j of the header are a method: i is its comment line and j
\* the first line after it that closes a method
Method(i, j) ==
  /\ 1 <= i /\ i < j /\ j <= Len(call.lines)
  /\ call.lines[j] = Line(<<"  }">>)
  /\ \A k \in i..(j - 1) : call.lines[k] # Line(<<"  }">>)

\* The line passes the call to the sandbox
IsCall(line) ==
  Len(line) = 5 /\ line[1] = "    SAPI_RETURN_IF_ERROR(sandbox_->Call(\"" /\
  line[5] = "));"

\* The line declares the local wrapper of the parameter called name
IsLocal(line, name) ==
  Len(line) = 8 /\ line[1] = "    " /\ line[3] = " " /\ line[4] = name /\
  line[5] = "_((" /\ line[6] = name

SugaredPointer(ty) == cindex.types[ty].canon = "POINTER"

\* The text that follows &ret in the call: one argument per parameter
RECURSIVE PassedArguments(_)
PassedArguments(params) ==
  IF params = <<>> THEN ""
  ELSE ", " \o (IF SugaredPointer(params[1].ty) THEN params[1].name
                ELSE "&" \o params[1].name \o "_")
       \o PassedArguments(Tail(params))

\* C8: in every emitted method the sandbox call passes &ret and then one
\* argument per parameter, in order: the bare name of a sugared pointer,
\* which has no local wrapper, and &name_ of any other parameter, whose
\* local name_ is declared before the call.
C8_CallArguments ==
  Generated =>
    \A c \in Retained :
      \E i, j \in 1..Len(call.lines) :
        /\ call.lines[i] = CommentLine(c) /\ Method(i, j)
        /\ \E k \in i..j :
             /\ IsCall(call.lines[k])
             /\ \A m \in i..j : IsCall(call.lines[m]) => m = k
             /\ call.lines[k][2] = cindex.functions[c].name
             /\ call.lines[k][3] = "\", &ret"
             /\ call.lines[k][4] = PassedArguments(Params(c))
             /\ \A p \in 1..Len(Params(c)) :
                  IF SugaredPointer(Params(c)[p].ty)
                  THEN \A m \in i..j : ~IsLocal(call.lines[m], Params(c)[p].name)
                  ELSE \E m \in i..(k - 1) : IsLocal(call.lines[m], Params(c)[p].name)

\* C8 happens: a method was emitted for a function that has a parameter
\* that is a sugared pointer and one that is not.
C8_Witness_BothKinds ==
  /\ Generated
  /\ \E c \in Retained :
       /\ \E p \in 1..Len(Params(c)) : SugaredPointer(Params(c)[p].ty)
       /\ \E p \in 1..Len(Params(c)) : ~SugaredPointer(Params(c)[p].ty)

\* The line is a statement of the body made of one piece after the indent
IsStatement(line) == Len(line) = 2 /\ line[1] = "    "

\* C9: every emitted method has one return statement, which agrees with
\* the declared return type: absl::Status and absl::OkStatus() exactly when
\* the C return type is void, otherwise absl::StatusOr<T> and a static_cast
\* of ret.GetValue() for an enum, ret.GetValue() for any other type.
C9_ReturnAgrees ==
  Generated =>
    \A c \in Retained :
      \E i, j \in 1..Len(call.lines) :
        /\ call.lines[i] = CommentLine(c) /\ Method(i, j)
        /\ \A m \in i..j : IsStatement(call.lines[m]) => m = j - 1
        /\ IsStatement(call.lines[j - 1])
        /\ LET ret == cindex.functions[c].ret
               declared == call.lines[i + 1][2]
               statement == call.lines[j - 1][2]
               T == Concat(SelectSeq(cindex.types[ret].spelling, LAMBDA x : x # "const"))
           IN IF cindex.types[ret].canon = "VOID"
              THEN declared = "absl::Status" /\ statement = "return absl::OkStatus();"
              ELSE /\ declared = "absl::StatusOr<" \o T \o ">"
                   /\ statement =
                        IF cindex.types[ret].canon = "ENUM"
                        THEN "return static_cast<" \o Concat(cindex.types[ret].spelling)
                             \o ">(ret.GetValue());"
                        ELSE "return ret.GetValue();"

\* The preorder visitation index of the declaration of a Type, in the
\* translation unit that owns it
VisitIndex(t) == tu[t.tu].order[_get_declaration(t.ty)]

\* C10 as stated: in the list _get_related_types returns, two types of one
\* translation unit are in the order of their visitation indices, and the
\* types of an earlier translation unit of the Generator's list come before
\* those of a later one.
C10_OrderedByTranslationUnit ==
  \A i, j \in 1..Len(ReturnedTypes) :
    i < j =>
      LET a == ReturnedTypes[i]
          b == ReturnedTypes[j]
      IN /\ a.tu = b.tu => VisitIndex(a) < VisitIndex(b)
         /\ TuPlace(translation_units, a.tu) <= TuPlace(translation_units, b.tu)

\* The place, in the list of retained functions, of the first function
\* whose related types hold the type t: the function that contributes it
Contributor(t) ==
  CHOOSE k \in 1..Len(functions.list) :
    /\ TypeUsr(t) \in Usrs(Closure(functions.list[k]))
    /\ \A h \in 1..(k - 1) : TypeUsr(t) \notin Usrs(Closure(functions.list[h]))

\* C10 amended: in the list _get_related_types returns, the types one
\* retained function contributes are in the order of their visitation
\* indices, and the types of an earlier function of the name-sorted list of
\* retained functions come before those of a later one.
C10_OrderedByFunction ==
  \A i, j \in 1..Len(ReturnedTypes) :
    i < j =>
      LET a == ReturnedTypes[i]
          b == ReturnedTypes[j]
      IN /\ \E k \in 1..Len(functions.list) :
              TypeUsr(a) \in Usrs(Closure(functions.list[k]))
         /\ Contributor(a) <= Contributor(b)
         /\ Contributor(a) = Contributor(b) =>
              a.tu = b.tu /\ VisitIndex(a) < VisitIndex(b)

\* C10 happens: one function contributes two types, and a later function
\* of the same translation unit a type that is declared before them.
C10_Witness_LaterFunctionEarlierType ==
  /\ call.op = "_get_related_types"
  /\ \E i, j, k \in 1..Len(call.types) :
       /\ i < j /\ j < k
       /\ Contributor(call.types[i]) = Contributor(call.types[j])
       /\ Contributor(call.types[j]) < Contributor(call.types[k])
       /\ call.types[j].tu = call.types[k].tu
       /\ VisitIndex(call.types[k]) < VisitIndex(call.types[i])

--------------------------------------------------------------------------
(* Type.get_related_types on its own: the translation units are processed, *)
(* a Type of one of them is taken and its related types are computed with  *)
(* an empty accumulator.                                                   *)

\* The type handles of translation unit n: those whose declarations its
\* walk visits
TypesOf(n) ==
  {ty \in DOMAIN cindex.types \ {"INVALID"} :
     NamedDecls(ty) \subseteq Range(_walk_preorder(n, {}))}

\* The translation units after _process, for headers that declare no function
Processed == [n \in TUs |-> _process(NewTranslationUnit(TuPath[n], FALSE), n, {})]

InitRelated ==
  /\ cindex = Parsed
  /\ decls = {}
  /\ translation_units = <<1>>
  /\ tu = Processed
  /\ functions = None
  /\ built_for = {}
  /\ call = NoCall
  /\ m_arg = NoArgument
  /\ m_out = Unset
  /\ \E n \in TUs : \E ty \in TypesOf(n) :
       input = [op |-> "get_related_types", tu |-> n, ty |-> ty]
  /\ output = Pending

\* Type(tu, ty).get_related_types()
RelatedTypes ==
  /\ input.op = "get_related_types"
  /\ output.status = "pending"
  /\ \E r \in {get_related_types(input.tu, input.ty,
                                 [result |-> {}, u |-> tu[input.tu]], FALSE)} :
       /\ output' = Gave(r.result)
       /\ tu' = [tu EXCEPT ![input.tu] = r.u]
  /\ UNCHANGED <<cindex, decls, translation_units, functions, built_for, call, m_arg, m_out, input>>

NextRelated == RelatedTypes

SpecRelated == InitRelated /\ [][NextRelated]_vars

\* The declarations a type handle leads to without passing a declaration:
\* itself when it is a typedef, a record or an enum, else those of its
\* pointee, of the element of a constant array, of the parameters and the
\* result of a prototype
RECURSIVE Leads(_)
Leads(ty) ==
  LET t == cindex.types[ty] IN
  IF t.kind \in {"TYPEDEF", "RECORD", "ENUM"} THEN {t.decl}
  ELSE IF t.kind = "FUNCTIONPROTO"
  THEN Leads(t.result) \cup UNION {Leads(t.args[i]) : i \in 1..Len(t.args)}
  ELSE IF t.kind \in {"ELABORATED", "POINTER", "MEMBERPOINTER", "LVALUEREFERENCE",
                      "RVALUEREFERENCE", "CONSTANTARRAY"}
  THEN Leads(t.sub)
  ELSE {}

\* One step from a declaration: to the underlying type of a typedef, to the
\* types of the fields of a struct or a union; none from a class or an enum
Steps(c) ==
  IF cindex.cursors[c].kind = "TYPEDEF_DECL" THEN Leads(cindex.cursors[c].underlying)
  ELSE IF cindex.cursors[c].kind \in {"STRUCT_DECL", "UNION_DECL"}
  THEN UNION {Leads(cindex.cursors[c].fields[i].type) : i \in 1..Len(cindex.cursors[c].fields)}
  ELSE {}

\* The declarations reached from those of S by steps that leave no
\* declaration of barred
RECURSIVE ReachedFrom(_, _)
ReachedFrom(S, barred) ==
  LET more == S \cup UNION {Steps(c) : c \in S \ barred}
  IN IF more = S THEN S ELSE ReachedFrom(more, barred)

\* The typedefs inside which the declaration d is written
TypedefsAround(d) ==
  {c \in DOMAIN cindex.cursors : cindex.cursors[c].kind = "TYPEDEF_DECL" /\ Inline(d, c)}

\* The named typedefs, structs, unions and enums reachable from the type
\* handle ty, less those reached only through a typedef they are written in
ReachableNamed(ty) ==
  {d \in ReachedFrom(Leads(ty), {}) :
     /\ cindex.cursors[d].kind \in {"TYPEDEF_DECL", "STRUCT_DECL", "UNION_DECL", "ENUM_DECL"}
     /\ cindex.cursors[d].spelling # ""
     /\ d \in ReachedFrom(Leads(ty), TypedefsAround(d))}

\* Type.get_related_types has returned
RelatedReturned == input.op = "get_related_types" /\ output.status = "returned"

\* C11: get_related_types of a type with an empty accumulator returns
\* exactly the named typedefs, structs, unions and enums reachable from the
\* type, none of them a scalar, a pointer, an array, a function or a class,
\* and none a record or enum reached only through a typedef inside which it
\* is written.
C11_ExactlyReachable ==
  RelatedReturned =>
    /\ Usrs(output.value) = {cindex.cursors[d].usr : d \in ReachableNamed(input.ty)}
    /\ \A t \in output.value :
         /\ cindex.types[t.ty].kind \in {"TYPEDEF", "RECORD", "ENUM"}
         /\ ~is_class(t.ty)

--------------------------------------------------------------------------
(* The Generator over headers whose functions take the records of common.h *)

RecordFuncs == {"F_fa", "F_fb", "F_ff", "F_fr", "F_fo", "F_fu"}

\* The headers that can be written: at most MaxFuncs of these declarations
RecordInputs == {D \in SUBSET RecordFuncs : Cardinality(D) <= MaxFuncs}

InitRecords ==
  /\ cindex = Parsed
  /\ decls \in RecordInputs
  /\ translation_units \in TuLists
  /\ tu = [n \in TUs |-> NewTranslationUnit(TuPath[n], FALSE)]
  /\ functions = None
  /\ built_for = {}
  /\ call = NoCall
  /\ m_arg = NoArgument
  /\ m_out = Returned("")
  /\ input = NoInput
  /\ output = Pending

SpecRecords == InitRecords /\ [][Next]_vars

\* The typedefs in the closure of a retained function
ClosureTypedefs ==
  {cindex.types[t.ty].decl :
     t \in {t \in UNION {Closure(f) : f \in Range(functions.list)} : is_typedef(t.ty)}}

\* C12: the list _get_related_types returns never holds a struct or union
\* whose declaration is written inside a typedef of the closure of a
\* retained function.
C12_InlineRecordNeverListed ==
  \A i \in 1..Len(ReturnedTypes) :
    (is_struct(ReturnedTypes[i].ty) \/ is_union(ReturnedTypes[i].ty)) =>
      \A c \in ClosureTypedefs : ~Inline(_get_declaration(ReturnedTypes[i].ty), c)

--------------------------------------------------------------------------
(* Generator._get_forward_decls on its own: a Generator is built from      *)
(* processed translation units and the function is applied to a list of    *)
(* Types of these units.                                                   *)

\* The Types the lists are made of: two handles of the forward-declared
\* struct of a.h, the forward-declared struct of b.h, and types that are
\* not forward-declared
ForwardTypes ==
  {MkType(1, "S6_rec"), MkType(1, "struct_S6"), MkType(1, "S6t"),
   MkType(1, "data_rec"), MkType(2, "S7_rec"), MkType(2, "uint")}

\* The lists of at most MaxTypes Types of the translation units of units
TypeLists(units) ==
  UNION {[1..k -> {t \in ForwardTypes : t.tu \in Range(units)}] : k \in 0..MaxTypes}

InitForward ==
  /\ cindex = Parsed
  /\ decls = {}
  /\ translation_units \in TuLists
  /\ tu = Processed
  /\ functions = None
  /\ built_for = {}
  /\ call = NoCall
  /\ m_arg = NoArgument
  /\ m_out = Unset
  /\ \E types \in TypeLists(translation_units) :
       input = [op |-> "_get_forward_decls", types |-> types]
  /\ output = Pending

\* Generator._get_forward_decls(types)
GetForwardDecls ==
  /\ input.op = "_get_forward_decls"
  /\ output.status = "pending"
  /\ output' = Gave(_get_forward_decls(translation_units, tu, input.types))
  /\ UNCHANGED <<cindex, decls, translation_units, tu, functions, built_for, call, m_arg, m_out, input>>

NextForward == GetForwardDecls

SpecForward == InitForward /\ [][NextForward]_vars

\* The USRs that are keys of the forward-declaration map of a translation
\* unit of the Generator
ForwardKeys == UNION {DOMAIN tu[n].forward_decls : n \in Range(translation_units)}

\* The cursor that forward-declares the struct of a USR
ForwardCursor(usr) ==
  CHOOSE c \in DOMAIN cindex.cursors :
    /\ cindex.cursors[c].kind = "STRUCT_DECL" /\ ~cindex.cursors[c].is_def
    /\ cindex.cursors[c].usr = usr

\* The places of a list of Types that hold, for the first time, a type
\* that is a key of a forward-declaration map
KeyPlaces(types) ==
  {k \in 1..Len(types) :
     /\ TypeUsr(types[k]) \in ForwardKeys
     /\ \A j \in 1..(k - 1) : TypeUsr(types[j]) # TypeUsr(types[k])}

\* The elements of a set of numbers in increasing order
RECURSIVE Ascending(_)
Ascending(S) ==
  IF S = {} THEN <<>>
  ELSE LET m == CHOOSE x \in S : \A y \in S : x <= y
       IN <<m>> \o Ascending(S \ {m})

\* The forward-declaration lines of the types at the places, in this order
ForwardLines(types, places) ==
  [i \in 1..Len(places) |-> TypeLine(ForwardCursor(TypeUsr(types[places[i]])))]

\* _get_forward_decls has returned
ForwardReturned == input.op = "_get_forward_decls" /\ output.status = "returned"

\* C13 as stated: _get_forward_decls(types) returns one forward-declaration
\* line for each type of types that is a key of a forward-declaration map,
\* none for another type, the lines in the order of the types in types.
C13_ForwardInTypesOrder ==
  ForwardReturned =>
    output.value = ForwardLines(input.types, Ascending(KeyPlaces(input.types)))

\* The place, in the Generator's list, of the first translation unit whose
\* forward-declaration map has the USR as a key
Turn(usr) ==
  CHOOSE i \in 1..Len(translation_units) :
    /\ usr \in DOMAIN tu[translation_units[i]].forward_decls
    /\ \A j \in 1..(i - 1) : usr \notin DOMAIN tu[translation_units[j]].forward_decls

\* The key places of types by translation unit, from unit number i of the
\* Generator's list on, those of one unit in increasing order
RECURSIVE ByTurn(_, _)
ByTurn(types, i) ==
  IF i > Len(translation_units) THEN <<>>
  ELSE Ascending({k \in KeyPlaces(types) : Turn(TypeUsr(types[k])) = i}) \o
       ByTurn(types, i + 1)

\* C13: _get_forward_decls(types) returns one forward-declaration line for
\* each type of types that is a key of a forward-declaration map and none
\* for another type; the lines come by translation unit, in the order of
\* the Generator's list (a type counts for the first unit whose map holds
\* it), and those of one unit in the order of the types in types.
C13_ForwardByUnit ==
  ForwardReturned =>
    output.value = ForwardLines(input.types, ByTurn(input.types, 1))

\* C13 happens: two lines are returned, for types forward-declared in
\* different translation units, against the order of the types.
C13_Witness_TwoUnits ==
  /\ ForwardReturned
  /\ Len(output.value) = 2
  /\ ByTurn(input.types, 1) # Ascending(KeyPlaces(input.types))

--------------------------------------------------------------------------
(* The #define lines *)

\* The macro definitions of translation unit n that have a file
MacrosOf(n) ==
  {c \in Range(_walk_preorder(n, {})) :
     cindex.cursors[c].kind = "MACRO_DEFINITION" /\ cindex.cursors[c].file # "none"}

\* Those whose name occurs among the tokens
Occurring(n, tokens) == {c \in MacrosOf(n) : cindex.cursors[c].spelling \in Range(tokens)}

\* The macros of S and those named in their bodies, transitively
RECURSIVE WithBodies(_, _)
WithBodies(n, S) ==
  LET more == S \cup UNION {Occurring(n, cindex.cursors[c].tokens) : c \in S}
  IN IF more = S THEN S ELSE WithBodies(n, more)

\* The declarations the types of the function of cursor c lead to
FunctionLeads(c) ==
  Leads(cindex.functions[c].ret) \cup
  UNION {Leads(cindex.functions[c].args[i].type) : i \in 1..Len(cindex.functions[c].args)}

\* The typedefs, records and enums in the closures of the retained
\* functions of translation unit n
ClosureDeclarations(n) ==
  {d \in UNION {ReachedFrom(FunctionLeads(f.cursor), {}) :
                  f \in {g \in Range(functions.list) : g.tu = n}} :
     cindex.cursors[d].kind \in {"TYPEDEF_DECL", "STRUCT_DECL", "UNION_DECL", "ENUM_DECL"}}

\* The macros the closure declarations of translation unit n refer to
ReferencedMacros(n) ==
  WithBodies(n, UNION {Occurring(n, cindex.cursors[d].tokens) : d \in ClosureDeclarations(n)})

\* Their #define lines, in the order in which they are written
DefineLinesOf(n) ==
  LET written == SelectSeq(_walk_preorder(n, {}), LAMBDA c : c \in ReferencedMacros(n))
  IN [k \in 1..Len(written) |->
        Line(<<"#define ", _stringify_tokens(Tokens(written[k]), " \\\n")>>)]

\* The related types have been computed by the last call
RelatedComputed ==
  call.op \in {"_get_related_types", "generate"} /\ call.status = "returned"

\* C14: once the related types are computed, the lines _get_defines gives
\* for a translation unit are the #define lines of the macros with a file
\* that a closure declaration names, or the body of such a macro names, in
\* the order in which the macros are written, and of no other macro.
C14_DefinesOfClosure ==
  RelatedComputed =>
    \A i \in 1..Len(translation_units) :
      _get_defines(<<translation_units[i]>>, tu, 1) = DefineLinesOf(translation_units[i])

\* C14 happens: a retained function reaches a record with a field sized by
\* the macro SIZE, whose body names BASE; both lines are given, BASE first,
\* and NOT_USED is not.
C14_Witness_Transitive ==
  /\ RelatedComputed
  /\ \E i \in 1..Len(translation_units) :
       /\ "s" \in ClosureDeclarations(translation_units[i])
       /\ _get_defines(<<translation_units[i]>>, tu, 1) =
            <<Line(<<"#define ", "BASE 8">>), Line(<<"#define ", "SIZE BASE * 2">>)>>

--------------------------------------------------------------------------
(* _TranslationUnit._process on its own: translation units are built with  *)
(* limit_scan_depth set or unset, and each is processed once.              *)

InitProcess ==
  /\ cindex = Parsed
  /\ decls \in Inputs
  /\ translation_units = <<1, 2>>
  /\ \E limit_scan_depth \in [TUs -> BOOLEAN] :
       tu = [n \in TUs |-> NewTranslationUnit(TuPath[n], limit_scan_depth[n])]
  /\ functions = None
  /\ built_for = {}
  /\ call = NoCall
  /\ m_arg = NoArgument
  /\ m_out = Unset
  /\ input = NoInput
  /\ output = Pending

\* _TranslationUnit._process() of translation unit n, not processed yet
Process(n) ==
  /\ ~tu[n].processed
  /\ tu' = [tu EXCEPT ![n] = _process(tu[n], n, decls)]
  /\ UNCHANGED <<cindex, decls, translation_units, functions, built_for, call, m_arg, m_out, input, output>>

NextProcess == \E n \in TUs : Process(n)

SpecProcess == InitProcess /\ [][NextProcess]_vars

\* The function declarations translation unit n sees: those of its
\* top-level file and of the header it includes
DeclaredIn(n) == {c \in decls : cindex.functions[c].file \in {"common.h", TuPath[n]}}

\* C15: the function set of a processed translation unit contains a
\* declaration it sees iff the declaration has no internal linkage and,
\* when limit_scan_depth is set, is written in the top-level file.
C15_FunctionSet ==
  \A n \in TUs :
    tu[n].processed =>
      \A c \in DeclaredIn(n) :
        FunctionIn(MkFunction(n, c), tu[n].functions) <=>
          /\ cindex.functions[c].linkage # "INTERNAL"
          /\ tu[n].limit_scan_depth => cindex.functions[c].file = tu[n].path

\* C15 happens: a unit with limit_scan_depth set is processed and keeps the
\* function of its top-level file, not that of the included header, while a
\* unit with limit_scan_depth unset keeps the function of the header.
C15_Witness_BothDepths ==
  /\ decls = {"F_fa", "F_fd"}
  /\ tu[1].processed /\ tu[1].limit_scan_depth
  /\ tu[1].functions = {MkFunction(1, "F_fa")}
  /\ tu[2].processed /\ ~tu[2].limit_scan_depth
  /\ tu[2].functions = {MkFunction(2, "F_fd")}

--------------------------------------------------------------------------
(* get_header_guard on its own *)

\* The chunks paths are put together from
PathChunks ==
  {GenfilesDir, GenSuffix, <<"x", "x", "/">>, <<"t", "e", "-", "s", "t">>,
   <<".", "h">>, <<"/", "t", "m", "p", "/">>}

\* The chunks of a sequence, concatenated
RECURSIVE Flatten(_)
Flatten(chunks) ==
  IF chunks = <<>> THEN <<>> ELSE Head(chunks) \o Flatten(Tail(chunks))

\* The paths of at most MaxChunks chunks, the empty path among them
Paths == {Flatten(q) : q \in UNION {[1..k -> PathChunks] : k \in 0..MaxChunks}}

InitGuard ==
  /\ cindex = Parsed
  /\ decls = {}
  /\ translation_units = <<1>>
  /\ tu = [n \in TUs |-> NewTranslationUnit(TuPath[n], FALSE)]
  /\ functions = None
  /\ built_for = {}
  /\ call = NoCall
  /\ m_arg = NoArgument
  /\ m_out = Unset
  /\ \E path \in Paths : input = [op |-> "get_header_guard", path |-> path]
  /\ output = Pending

\* get_header_guard(path)
GetHeaderGuard ==
  /\ input.op = "get_header_guard"
  /\ output.status = "pending"
  /\ output' = IF input.path = <<>> THEN Failed("ValueError")
               ELSE Gave(get_header_guard(input.path))
  /\ UNCHANGED <<cindex, decls, translation_units, tu, functions, built_for, call, m_arg, m_out, input>>

NextGuard == GetHeaderGuard

SpecGuard == InitGuard /\ [][NextGuard]_vars

\* The first place at which sub occurs in text
FirstAt(text, sub) ==
  CHOOSE i \in 1..Len(text) :
    OccursAt(text, sub, i) /\ \A j \in 1..(i - 1) : ~OccursAt(text, sub, j)

\* The path without the text up to and including genfiles/
AfterGenfiles(path) ==
  IF Contains(path, GenfilesDir)
  THEN SubSeq(path, FirstAt(path, GenfilesDir) + Len(GenfilesDir), Len(path))
  ELSE path

\* The path without a trailing .gen
WithoutGenSuffix(path) ==
  IF EndsWith(path, GenSuffix) THEN SubSeq(path, 1, Len(path) - Len(GenSuffix))
  ELSE path

\* A character in upper case, '.', '-' and '/' as '_'
GuardChar(c) == IF c \in {".", "-", "/"} THEN "_" ELSE UpperChar(c)

\* The guard of a path as C16 describes it
GuardOf(path) ==
  LET stripped == WithoutGenSuffix(AfterGenfiles(path))
  IN [i \in 1..Len(stripped) |-> GuardChar(stripped[i])] \o <<"_">>

\* C16: for a path that is not empty get_header_guard returns the path
\* without the text up to and including genfiles/, without a trailing .gen,
\* in upper case, with '_' for every '.', '-' and '/' and one '_' appended;
\* for the empty path it fails with a ValueError.
C16_HeaderGuard ==
  (input.op = "get_header_guard" /\ output.status # "pending") =>
    IF input.path = <<>> THEN output = Failed("ValueError")
    ELSE output = Gave(GuardOf(input.path))

--------------------------------------------------------------------------
(* Function.get_include_path on its own.  The absolute path of the         *)
(* function's file and the prefix are sequences of characters; the prefix  *)
(* may be None.                                                            *)

\* The last element of a list: list[-1]
Last(list) == list[Len(list)]

\* A variant of IncludePathUnder that takes the piece that follows the
\* first occurrence of the prefix, split(prefix)[1]: C17 is sensitive to it.
IncludePathAfterFirst(absolute_path, prefix) ==
  IF Contains(absolute_path, prefix)
  THEN prefix \o Split(absolute_path, prefix)[2]
  ELSE prefix \o Last(Split(absolute_path, <<"/">>))

\* The last two branches of get_include_path, for the prefix that ends
\* in '/'
IncludePathUnder(absolute_path, prefix) ==
  IF Contains(absolute_path, prefix)
  THEN prefix \o Last(Split(absolute_path, prefix))
  ELSE prefix \o Last(Split(absolute_path, <<"/">>))

\* Function.get_include_path(prefix), for a function whose
\* get_absolute_path() gives absolute_path
get_include_path(absolute_path, prefix) ==
  IF prefix.none \/ prefix.list = <<>> THEN absolute_path
  ELSE IF ~EndsWith(prefix.list, <<"/">>)
  THEN IncludePathUnder(absolute_path, prefix.list \o <<"/">>)
  ELSE IncludePathUnder(absolute_path, prefix.list)

\* The directories absolute paths are put together from
Directories == {<<"a", "/">>, <<"b", "/">>, <<"a", "b", "/">>}

\* The absolute paths of a header t.h under at most MaxChunks directories
AbsolutePaths ==
  {<<"/">> \o Flatten(q) \o <<"t", ".", "h">> :
     q \in UNION {[1..k -> Directories] : k \in 0..MaxChunks}}

\* The prefixes: None, the empty one, and some with and without a final '/'
Prefixes ==
  {None} \cup
  {Some(x) : x \in {<<>>, <<"a">>, <<"a", "/">>, <<"b">>, <<"a", "/", "b">>,
                    <<"a", "/", "a">>, <<"b", "/", "a", "/">>, <<"x">>,
                    <<"x", "/", "b", "/">>}}

InitInclude ==
  /\ cindex = Parsed
  /\ decls = {}
  /\ translation_units = <<1>>
  /\ tu = [n \in TUs |-> NewTranslationUnit(TuPath[n], FALSE)]
  /\ functions = None
  /\ built_for = {}
  /\ call = NoCall
  /\ m_arg = NoArgument
  /\ m_out = Unset
  /\ \E path \in AbsolutePaths, prefix \in Prefixes :
       input = [op |-> "get_include_path", path |-> path, prefix |-> prefix]
  /\ output = Pending

\* Function.get_include_path(prefix)
GetIncludePath ==
  /\ input.op = "get_include_path"
  /\ output.status = "pending"
  /\ output' = Gave(get_include_path(input.path, input.prefix))
  /\ UNCHANGED <<cindex, decls, translation_units, tu, functions, built_for, call, m_arg, m_out, input>>

NextInclude == GetIncludePath

SpecInclude == InitInclude /\ [][NextInclude]_vars

\* The prefix with a final '/' ensured
Slashed(prefix) ==
  IF prefix[Len(prefix)] = "/" THEN prefix ELSE prefix \o <<"/">>

\* The places at which sub occurs in text from the place from on, found
\* from left to right, an occurrence never overlapping the one before
RECURSIVE Occurrences(_, _, _)
Occurrences(text, sub, from) ==
  IF \E i \in from..Len(text) : OccursAt(text, sub, i)
  THEN LET first == CHOOSE i \in from..Len(text) :
                      /\ OccursAt(text, sub, i)
                      /\ \A j \in from..(i - 1) : ~OccursAt(text, sub, j)
       IN {first} \cup Occurrences(text, sub, first + Len(sub))
  ELSE {}

\* The last of these places
LastAt(text, sub) ==
  CHOOSE i \in Occurrences(text, sub, 1) : \A j \in Occurrences(text, sub, 1) : j <= i

\* The text after the occurrence of sub at place i
After(text, sub, i) == SubSeq(text, i + Len(sub), Len(text))

\* The basename of a path: the text after its last '/'
Basename(path) ==
  IF Contains(path, <<"/">>) THEN After(path, <<"/">>, LastAt(path, <<"/">>)) ELSE path

\* get_include_path has returned for a prefix that is neither None nor empty
IncludeReturned ==
  /\ input.op = "get_include_path" /\ output.status = "returned"
  /\ ~input.prefix.none /\ input.prefix.list # <<>>

\* get_include_path has returned for the prefix None or the empty prefix
IncludeNoPrefix ==
  /\ input.op = "get_include_path" /\ output.status = "returned"
  /\ input.prefix.none \/ input.prefix.list = <<>>

\* C17 as stated: get_include_path returns the absolute path for an empty
\* prefix or None; else, with P the prefix with a final '/', P and the path
\* after the first occurrence of P when P occurs in the path, P and the
\* basename when it does not.
C17_AfterFirstOccurrence ==
  /\ IncludeNoPrefix => output.value = input.path
  /\ IncludeReturned =>
       output.value =
         IF Contains(input.path, Slashed(input.prefix.list))
         THEN Slashed(input.prefix.list) \o
              After(input.path, Slashed(input.prefix.list),
                    FirstAt(input.path, Slashed(input.prefix.list)))
         ELSE Slashed(input.prefix.list) \o Basename(input.path)

\* C17: get_include_path returns the absolute path for an empty prefix or
\* None; else, with P the prefix with a final '/', P and the path after
\* the last occurrence of P when P occurs in the path (the occurrences
\* taken from left to right without overlap), P and the basename when it
\* does not.
C17_AfterLastOccurrence ==
  /\ IncludeNoPrefix => output.value = input.path
  /\ IncludeReturned =>
       output.value =
         IF Contains(input.path, Slashed(input.prefix.list))
         THEN Slashed(input.prefix.list) \o
              After(input.path, Slashed(input.prefix.list),
                    LastAt(input.path, Slashed(input.prefix.list)))
         ELSE Slashed(input.prefix.list) \o Basename(input.path)

\* C17 happens: the prefix occurs twice in the path and the call returned.
C17_Witness_TwoOccurrences ==
  /\ IncludeReturned
  /\ Contains(input.path, Slashed(input.prefix.list))
  /\ FirstAt(input.path, Slashed(input.prefix.list)) #
       LastAt(input.path, Slashed(input.prefix.list))

--------------------------------------------------------------------------
(* The comparisons of Type on their own: the translation units are         *)
(* processed, three Types are taken (parameters of a function, of one or   *)
(* of two translation units) and compared pairwise with ==, !=, < and >,   *)
(* hashed, and put into a set.                                             *)

\* A variant of Type.__lt__ without the call of _validate_tu: C19 is
\* sensitive to it.
TypeLtUnvalidated(t, o, tus) ==
  IF {_get_declaration(t.ty), _get_declaration(o.ty)} \subseteq DOMAIN tus[t.tu].order
  THEN Gave(OrderKey(tus[t.tu], t) < OrderKey(tus[t.tu], o))
  ELSE Failed("KeyError")

\* Type.__lt__: _validate_tu raises ValueError for Types of different
\* translation units, and the lookup of a declaration that has no index in
\* the order dict raises KeyError.
TypeLt(t, o, tus) ==
  IF t.tu # o.tu THEN Failed("ValueError")
  ELSE IF {_get_declaration(t.ty), _get_declaration(o.ty)} \subseteq DOMAIN tus[t.tu].order
  THEN Gave(OrderKey(tus[t.tu], t) < OrderKey(tus[t.tu], o))
  ELSE Failed("KeyError")

\* Type.__gt__
TypeGt(t, o, tus) ==
  IF t.tu # o.tu THEN Failed("ValueError")
  ELSE IF {_get_declaration(t.ty), _get_declaration(o.ty)} \subseteq DOMAIN tus[t.tu].order
  THEN Gave(OrderKey(tus[t.tu], t) > OrderKey(tus[t.tu], o))
  ELSE Failed("KeyError")

\* set(types) for a list of Types
RECURSIVE SetOfTypes(_, _, _)
SetOfTypes(types, i, acc) ==
  IF i > Len(types) THEN acc
  ELSE SetOfTypes(types, i + 1, TypeAdd(acc, types[i]))

\* The Types compared: typedefs, records, a pointer to a record, types
\* declared by the common header and by the top-level one, two builtin
\* types, and two Types of the second translation unit
ComparedTypes ==
  {MkType(1, ty) : ty \in {"uint", "data_s", "struct_data", "struct_s", "struct_s_p",
                           "S6t", "struct_S6", "INT", "CHAR_S"}}
  \cup {MkType(2, "uint"), MkType(2, "uint_p")}

InitCompare ==
  /\ cindex = Parsed
  /\ decls = {}
  /\ translation_units = <<1, 2>>
  /\ tu = Processed
  /\ functions = None
  /\ built_for = {}
  /\ call = NoCall
  /\ m_arg = NoArgument
  /\ m_out = Unset
  /\ \E a, b, c \in ComparedTypes : input = [op |-> "compare", types |-> <<a, b, c>>]
  /\ output = Pending

\* args[i] == args[j], args[i] != args[j], hash(args[i]), set of two and
\* of all args, args[i] < args[j] and args[i] > args[j], for every i and j
Compare ==
  /\ input.op = "compare"
  /\ output.status = "pending"
  /\ output' =
       Gave([eq |-> [i, j \in 1..3 |-> TypeEq(input.types[i], input.types[j])],
             ne |-> [i, j \in 1..3 |-> TypeNe(input.types[i], input.types[j])],
             hash |-> [i \in 1..3 |-> TypeHash(input.types[i])],
             pair |-> [i, j \in 1..3 |->
                         SetOfTypes(<<input.types[i], input.types[j]>>, 1, {})],
             set |-> SetOfTypes(input.types, 1, {}),
             lt |-> [i, j \in 1..3 |-> TypeLt(input.types[i], input.types[j], tu)],
             gt |-> [i, j \in 1..3 |-> TypeGt(input.types[i], input.types[j], tu)]])
  /\ UNCHANGED <<cindex, decls, translation_units, tu, functions, built_for, call, m_arg, m_out, input>>

NextCompare == Compare

SpecCompare == InitCompare /\ [][NextCompare]_vars

\* The comparisons have been made
Compared == input.op = "compare" /\ output.status = "returned"

\* The USR of the declaration of a Type, the declaration of a pointer that
\* has none being that of its pointee
DeclarationUsr(t) == cindex.cursors[_get_declaration(t.ty)].usr

\* Two Types are of different types for sure when their canonical types are
\* of different kinds
DifferentTypes(a, b) == cindex.types[a.ty].canon # cindex.types[b.ty].canon

\* C18: for any two Types t and t', t == t' holds iff their declarations
\* have the same USR, t != t' is its negation, and t == t' implies equal
\* hashes; two parameters of the same typedef type are equal and are one
\* element of a set, while two parameters of different types are not equal
\* and are two elements of a set.
C18_EqualByUsr ==
  Compared =>
    \A i, j \in 1..3 :
      /\ output.value.eq[i, j] <=> DeclarationUsr(input.types[i]) = DeclarationUsr(input.types[j])
      /\ output.value.ne[i, j] <=> ~output.value.eq[i, j]
      /\ output.value.eq[i, j] => output.value.hash[i] = output.value.hash[j]
      /\ is_typedef(input.types[i].ty) /\ input.types[i].ty = input.types[j].ty =>
           output.value.eq[i, j] /\ Cardinality(output.value.pair[i, j]) = 1
      /\ DifferentTypes(input.types[i], input.types[j]) =>
           ~output.value.eq[i, j] /\ Cardinality(output.value.pair[i, j]) = 2

\* The Type has a declaration (its own, or its pointee's for a pointer)
HasDeclaration(t) == cindex.cursors[_get_declaration(t.ty)].kind # "NO_DECL_FOUND"

\* The place of the declaration of a Type in the preorder walk of its
\* translation unit, the cursors of the included header coming first
VisitPlace(t) == Index(_walk_preorder(t.tu, decls), _get_declaration(t.ty))

\* a < b returned True
IsLess(i, j) == output.value.lt[i, j] = Gave(TRUE)

\* a > b returned True
IsGreater(i, j) == output.value.gt[i, j] = Gave(TRUE)

--------------------------------------------------------------------------
(* _stringify_tokens on its own: a sequence of tokens of up to MaxLines    *)
(* source lines, with balanced braces, is rendered.                        *)

\* The source lines the token sequences are made of: the opening and the
\* closing line of a block, a member, a preprocessor line, a block written
\* on one line, a closing brace at the end of a line, and a closing brace
\* followed by an opening one
SourceLines ==
  << <<"struct", "{">>,
     <<"}", "b", ";">>,
     <<"uint", "a", ";">>,
     <<"#", "else">>,
     <<"struct", "{", "int", "x", ";", "}", "in", ";">>,
     <<"int", "y", ";", "}">>,
     <<"}", ",", "{">> >>

\* The number of tokens of a line that are the spelling sp
Count(line, sp) == Cardinality({i \in 1..Len(line) : line[i] = sp})

\* The number of blocks open after the first i lines of a text
RECURSIVE DepthAfter(_, _)
DepthAfter(text, i) ==
  IF i = 0 THEN 0
  ELSE DepthAfter(text, i - 1) + Count(text[i], "{") - Count(text[i], "}")

\* No token closes a block that is not open, and no block is left open
RECURSIVE BalancedFrom(_, _, _)
BalancedFrom(tokens, i, depth) ==
  IF i > Len(tokens) THEN depth = 0
  ELSE IF tokens[i] = "{" THEN BalancedFrom(tokens, i + 1, depth + 1)
  ELSE IF tokens[i] = "}" THEN depth > 0 /\ BalancedFrom(tokens, i + 1, depth - 1)
  ELSE BalancedFrom(tokens, i + 1, depth)

\* The texts with balanced braces, as sequences of source lines
Texts ==
  {text \in UNION {[1..k -> Range(SourceLines)] : k \in 1..MaxLines} :
     BalancedFrom(Flatten(text), 1, 0)}

\* The tokens of a text, each with the number of its line
RECURSIVE TokensOfText(_, _)
TokensOfText(text, i) ==
  IF i > Len(text) THEN <<>>
  ELSE [k \in 1..Len(text[i]) |-> Token(i, text[i][k])] \o TokensOfText(text, i + 1)

InitStringify ==
  /\ cindex = Parsed
  /\ decls = {}
  /\ translation_units = <<1>>
  /\ tu = Processed
  /\ functions = None
  /\ built_for = {}
  /\ call = NoCall
  /\ m_arg = NoArgument
  /\ m_out = Unset
  /\ \E text \in Texts :
       input = [op |-> "_stringify_tokens", text |-> text, tokens |-> TokensOfText(text, 1)]
  /\ output = Pending

\* _stringify_tokens(tokens)
StringifyTokens ==
  /\ input.op = "_stringify_tokens"
  /\ output.status = "pending"
  /\ output' = Gave(_stringify_tokens(input.tokens, "\n"))
  /\ UNCHANGED <<cindex, decls, translation_units, tu, functions, built_for, call, m_arg, m_out, input>>

NextStringify == StringifyTokens

SpecStringify == InitStringify /\ [][NextStringify]_vars

\* The text of a line without its indentation
LineText(line) == Concat(OutputLine(0, [k \in 1..Len(line) |-> Token(1, line[k])]).spellings)

\* The tabs a line of a text is to begin with: none for a line with a '#',
\* else one for each block open where the line begins, less the block that
\* a '}' at the beginning of the line closes
TabsOfLine(text, i) ==
  IF Count(text[i], "#") > 0 THEN 0
  ELSE IF text[i][1] = "}" THEN DepthAfter(text, i - 1) - 1
  ELSE DepthAfter(text, i - 1)

\* C20: for a token sequence with balanced braces, _stringify_tokens renders
\* one line for each source line; a line with a '#' token has no leading
\* tab, and every other line has one leading tab for each block that
\* encloses it, a line that begins with '}' being indented as the line that
\* opened the block.
C20_IndentedByDepth ==
  input.op = "_stringify_tokens" /\ output.status = "returned" =>
    output.value =
      Join("\n", [i \in 1..Len(input.text) |->
                    Tabs(TabsOfLine(input.text, i)) \o LineText(input.text[i])])

--------------------------------------------------------------------------
(* Generator.generate with all its arguments: a Generator is built for     *)
(* headers that declare some functions, and generate is called with a      *)
(* namespace, an output file, an embed directory and an embed name.        *)

\* The functions the headers declare: none, one whose types need a macro,
\* one whose types need a forward declaration, both, and one that takes a
\* record by value
TemplateInputs == {{}, {"F_fa"}, {"F_fc"}, {"F_fa", "F_fc"}, {"F_ff"}}

\* namespace.split('::') if namespace else []
TemplateNamespaces == {<<>>, <<"sapi">>, <<"sapi", "Tests">>}

\* output_file, empty for None
TemplateOutputFiles ==
  {<<>>, <<"x", ".", "h">>, <<"g", "e", "n", "f", "i", "l", "e", "s", "/", "a", ".", "h">>}

\* embed_dir ("" for None) and embed_name (empty for None)
TemplateEmbeds ==
  {[dir |-> "", name |-> <<>>], [dir |-> "e", name |-> <<>>],
   [dir |-> "", name |-> <<"lib">>], [dir |-> "e", name |-> <<"l", "-", "b">>]}

InitTemplate ==
  /\ cindex = Parsed
  /\ decls \in TemplateInputs
  /\ translation_units = <<1>>
  /\ tu = [n \in TUs |-> NewTranslationUnit(TuPath[n], FALSE)]
  /\ functions = None
  /\ built_for = {}
  /\ call = NoCall
  /\ m_arg = NoArgument
  /\ m_out = Unset
  /\ \E namespace \in TemplateNamespaces, output_file \in TemplateOutputFiles,
        embed \in TemplateEmbeds :
       input = [op |-> "generate", namespace |-> namespace, output_file |-> output_file,
                embed_dir |-> embed.dir, embed_name |-> embed.name]
  /\ output = Pending

\* Generator.generate("Test", [], namespace, output_file, embed_dir, embed_name)
GenerateHeader ==
  /\ input.op = "generate"
  /\ output.status = "pending"
  /\ \E r \in generate(functions, translation_units, tu, decls, "Test", {},
                       input.namespace, input.output_file, input.embed_dir,
                       input.embed_name) :
       /\ functions' = Some(r.functions)
       /\ tu' = r.tus
       /\ call' = [op |-> "generate", func_names |-> {}, types |-> r.types,
                   status |-> r.status, lines |-> r.lines, error |-> r.error]
       /\ output' = IF r.status = "returned" THEN Gave(r.lines) ELSE Failed(r.error.type)
  /\ built_for' = BuiltFor({})
  /\ UNCHANGED <<cindex, decls, translation_units, m_arg, m_out, input>>

NextTemplate == GenerateHeader

SpecTemplate == InitTemplate /\ [][NextTemplate]_vars

\* generate returned a header
HeaderReturned == input.op = "generate" /\ output.status = "returned"

\* The texts of the forward declarations of the headers
ForwardTexts ==
  {_stringify_tokens(Tokens(c), "\n") :
     c \in {d \in DOMAIN cindex.cursors :
              cindex.cursors[d].kind = "STRUCT_DECL" /\ ~cindex.cursors[d].is_def}}

\* The section that line i of a header opens or belongs to, 0 for the lines
\* that do not tell (empty lines, the lines inside a class)
Section(lines, i) ==
  LET line == lines[i] IN
  IF line \in Range(AUTO_GENERATED) /\ line # <<"">> THEN 1
  ELSE IF line[1] = "#ifndef " THEN 2
  ELSE IF line[1] = "#define " /\ i > 1 /\ lines[i - 1][1] = "#ifndef " THEN 2
  ELSE IF Len(line) = 1 /\ line[1] \in
            {"#include \"absl/status/status.h\"", "#include \"absl/status/statusor.h\"",
             "#include \"sandboxed_api/sandbox.h\"",
             "#include \"sandboxed_api/util/status_macros.h\"",
             "#include \"sandboxed_api/vars.h\""} THEN 3
  ELSE IF line[1] = "#include \"" THEN 4
  ELSE IF line[1] = "namespace " THEN 5
  ELSE IF line[1] = "#define " THEN 6
  ELSE IF Len(line) = 2 /\ line[2] = ";" /\ line[1] \in ForwardTexts THEN 7
  ELSE IF Len(line) = 2 /\ line[2] = ";" THEN 8
  ELSE IF Len(line) = 3 /\ line[1] = "class " /\ line[3] = "Sandbox : public ::sapi::Sandbox {" THEN 9
  ELSE IF Len(line) = 3 /\ line[1] = "class " /\ line[3] = "Api {" THEN 10
  ELSE IF line[1] = "}  // namespace " THEN 11
  ELSE IF line[1] = "#endif  // " THEN 12
  ELSE 0

\* The lines of a header that are of section k, in their order
SectionLines(lines, k) ==
  SelectSeq([i \in 1..Len(lines) |-> [at |-> i, line |-> lines[i]]],
            LAMBDA x : Section(lines, x.at) = k)

\* C21: every header generate returns has its sections in the order banner,
\* guard open, fixed includes, embed include, namespace opens, #defines,
\* forward declarations, type definitions, embed class, API class,
\* namespace closes, guard close; the guard close is present iff the guard
\* open is, iff output_file is not empty; the embed include is present iff
\* the embed class is; and the namespaces are closed in the reverse of the
\* order in which they were opened.
C21_SectionsInOrder ==
  HeaderReturned =>
    /\ \A i, j \in 1..Len(output.value) :
         i < j /\ Section(output.value, i) # 0 /\ Section(output.value, j) # 0
           => Section(output.value, i) <= Section(output.value, j)
    /\ Section(output.value, 1) = 1
    /\ Len(SectionLines(output.value, 3)) = 5
    /\ Len(SectionLines(output.value, 10)) = 1
    /\ (SectionLines(output.value, 12) # <<>>) <=> (SectionLines(output.value, 2) # <<>>)
    /\ (SectionLines(output.value, 2) # <<>>) <=> (input.output_file # <<>>)
    /\ (SectionLines(output.value, 4) # <<>>) <=> (SectionLines(output.value, 9) # <<>>)
    /\ Len(SectionLines(output.value, 5)) = Len(SectionLines(output.value, 11))
    /\ \A k \in 1..Len(SectionLines(output.value, 5)) :
         SectionLines(output.value, 11)[k].line[2] =
           SectionLines(output.value, 5)[Len(SectionLines(output.value, 5)) + 1 - k].line[2]

\* A header is returned that has every section, with two namespaces
C21_Witness_EverySection ==
  /\ HeaderReturned
  /\ \A k \in 1..12 : SectionLines(output.value, k) # <<>>
  /\ Len(SectionLines(output.value, 5)) = 2

--------------------------------------------------------------------------
(* The types of the functions that are filtered out                        *)

\* The functions of the translation units of the Generator
FoundFunctions == UNION {tu[n].functions : n \in Range(translation_units)}

\* The Type is in the closure of a retained function
OfRetained(t) == \E f \in Range(functions.list) : TypeIn(t, Closure(f))

\* C22: every type of the list _get_related_types returns is in the closure
\* of at least one retained function, so that a type only the functions
\* that are filtered out reach is not in the list, although
\* Function.get_related_types of such a function returns it.
C22_OnlyOfRetained ==
  call.op = "_get_related_types" /\ call.status = "returned" =>
    /\ \A i \in 1..Len(call.types) : OfRetained(call.types[i])
    /\ \A g \in FoundFunctions \ Range(functions.list) : \A t \in Closure(g) :
         ~OfRetained(t) => ~\E i \in 1..Len(call.types) : TypeEq(call.types[i], t)

\* _get_related_types returned some types, and a function that the
\* whitelist filtered out has a type in its closure that no retained
\* function has
C22_Witness_FilteredOut ==
  /\ call.op = "_get_related_types" /\ call.status = "returned"
  /\ call.types # <<>>
  /\ \E g \in FoundFunctions \ Range(functions.list) :
       ~is_mangled(g) /\ \E t \in Closure(g) : ~OfRetained(t)

--------------------------------------------------------------------------
(* sapi_generator.main: the files of --sapi_in are processed, a Generator  *)
(* is built, generate is called, and its result is written to the file of  *)
(* --sapi_out, or to stdout when the flag is empty.  input holds the       *)
(* flags; output holds the position in main (pc), how main ended, the text *)
(* written to the output file and to stdout (None when nothing was         *)
(* written).                                                               *)

\* The paths of --sapi_in: the headers that exist are those of TuPath
SapiIn ==
  {<<"a.h">>, <<"b.h", "a.h">>, <<"missing.h">>, <<"a.h", "missing.h">>, <<"a.h", "b.h">>}

\* os.path.isfile(path)
isfile(path) == path \in Range(TuPath)

\* The functions the headers declare: one that takes a record by value
\* (unsupported) among them
MainInputs == {{}, {"F_fa"}, {"F_fa", "F_fe"}, {"F_ff"}, {"F_fa", "F_ff"}, {"F_fc", "F_fd"}}

\* main as it starts
Started ==
  [status |-> "pending", pc |-> "process_files", error |-> "", file |-> None,
   stdout |-> None]

InitMain ==
  /\ cindex = Parsed
  /\ decls \in MainInputs
  /\ translation_units = <<>>
  /\ tu = [n \in TUs |-> NewTranslationUnit(TuPath[n], FALSE)]
  /\ functions = None
  /\ built_for = {}
  /\ call = NoCall
  /\ m_arg = NoArgument
  /\ m_out = Unset
  /\ \E sapi_in \in SapiIn, sapi_functions \in Whitelists(decls),
        sapi_out \in {<<>>, <<"x", ".", "h">>}, limit_scan_depth \in BOOLEAN :
       input = [op |-> "main", sapi_in |-> sapi_in, sapi_functions |-> sapi_functions,
                sapi_out |-> sapi_out, limit_scan_depth |-> limit_scan_depth]
  /\ output = Started

\* Analyzer.process_files(FLAGS.sapi_in, c_flags, FLAGS.sapi_limit_scan_depth)
\* and Generator(tus): _analyze_file_for_tu raises IOError for the first
\* path that is not a file
ProcessFiles ==
  /\ input.op = "main"
  /\ output.pc = "process_files"
  /\ IF \A i \in 1..Len(input.sapi_in) : isfile(input.sapi_in[i])
     THEN /\ translation_units' = [i \in 1..Len(input.sapi_in) |-> Index(TuPath, input.sapi_in[i])]
          /\ tu' = [n \in TUs |-> NewTranslationUnit(TuPath[n], input.limit_scan_depth)]
          /\ output' = [output EXCEPT !.pc = "generate"]
     ELSE /\ output' = [output EXCEPT !.pc = "done", !.status = "raised", !.error = "IOError"]
          /\ UNCHANGED <<translation_units, tu>>
  /\ UNCHANGED <<cindex, decls, functions, built_for, call, m_arg, m_out, input>>

\* A variant of WriteResult that writes what there is also when generate
\* raised: C23 is sensitive to it.
WriteResultAnyway(out, r, sapi_out) ==
  IF sapi_out # <<>>
  THEN [out EXCEPT !.pc = "done", !.status = r.status, !.error = r.error.type,
                   !.file = Some(r.lines)]
  ELSE [out EXCEPT !.pc = "done", !.status = r.status, !.error = r.error.type,
                   !.stdout = Some(r.lines)]

\* The end of main, r being the outcome of generator.generate: when it
\* raised main ends with the error, else the result is written
WriteResult(out, r, sapi_out) ==
  IF r.status # "returned"
  THEN [out EXCEPT !.pc = "done", !.status = "raised", !.error = r.error.type]
  ELSE IF sapi_out # <<>>
  THEN [out EXCEPT !.pc = "done", !.status = "returned", !.file = Some(r.lines)]
  ELSE [out EXCEPT !.pc = "done", !.status = "returned", !.stdout = Some(r.lines)]

\* generator.generate(FLAGS.sapi_name, FLAGS.sapi_functions, FLAGS.sapi_ns,
\* FLAGS.sapi_out, FLAGS.sapi_embed_dir, FLAGS.sapi_embed_name) and the
\* writing of its result
GenerateAndWrite ==
  /\ input.op = "main"
  /\ output.pc = "generate"
  /\ \E r \in generate(functions, translation_units, tu, decls, "Test",
                       input.sapi_functions, <<>>, input.sapi_out, "", <<>>) :
       /\ functions' = Some(r.functions)
       /\ tu' = r.tus
       /\ call' = [op |-> "generate", func_names |-> input.sapi_functions, types |-> r.types,
                   status |-> r.status, lines |-> r.lines, error |-> r.error]
       /\ output' = WriteResult(output, r, input.sapi_out)
  /\ built_for' = BuiltFor(input.sapi_functions)
  /\ UNCHANGED <<cindex, decls, translation_units, m_arg, m_out, input>>

NextMain == ProcessFiles \/ GenerateAndWrite

SpecMain == InitMain /\ [][NextMain]_vars

\* C23: when a path of the input does not exist or generation fails on an
\* unsupported type, main ends with that error and nothing is written to
\* the output file or to stdout; what is written is the whole text that
\* generate returned, after it returned.
C23_NothingWrittenOnError ==
  input.op = "main" =>
    /\ (\E i \in 1..Len(input.sapi_in) : ~isfile(input.sapi_in[i])) /\ output.pc = "done"
         => output.status = "raised" /\ output.error = "IOError"
    /\ output.pc = "done" /\ call.op = "generate" /\ call.status = "raised"
         => output.status = "raised" /\ output.error = call.error.type
    /\ output.status # "returned" => output.file = None /\ output.stdout = None
    /\ ~output.file.none \/ ~output.stdout.none =>
         /\ call.op = "generate" /\ call.status = "returned"
         /\ IF input.sapi_out # <<>>
            THEN output.file = Some(call.lines) /\ output.stdout = None
            ELSE output.stdout = Some(call.lines) /\ output.file = None

\* main ended with the error of an unsupported type, and nothing was written
C23_Witness_UnsupportedType ==
  /\ input.op = "main" /\ output.pc = "done"
  /\ output.status = "raised" /\ output.error = "ValueError"
  /\ input.sapi_out # <<>>
  /\ output.file = None

--------------------------------------------------------------------------
(* Type.get_related_types call by call.  output holds the calls that are   *)
(* open or still to be made, the first being the one that runs (stack),    *)
(* and the set all of them share (result); tu holds the record of the      *)
(* translation unit, which the calls change.  A frame is a call of         *)
(* get_related_types on a type (op "type"), the loop over the fields of a  *)
(* record from field i on (op "fields"), or the loop over the parameters   *)
(* of a prototype from parameter i on, followed by its result type         *)
(* (op "args").                                                            *)

Frame(op, ty, i, skip_self) == [op |-> op, ty |-> ty, i |-> i, skip_self |-> skip_self]

\* A variant of BaseCase that does not look into result: C24 is sensitive
\* to it.
BaseCaseWithoutResult(n, ty, result) == is_simple_type(ty) \/ is_class(ty)

\* The base case of Type.get_related_types
BaseCase(n, ty, result) ==
  TypeIn(MkType(n, ty), result) \/ is_simple_type(ty) \/ is_class(ty)

\* Type._get_related_types_of_typedef up to its recursive call: w is
\* [stack, result, u], rest the frames under the running one
TypedefStep(n, ty, rest, w) ==
  LET decl == cindex.types[ty].decl
      t0 == cindex.cursors[decl].underlying
      t == IF is_sugared_ptr(t0) THEN get_pointee(t0) ELSE t0
      skip_child == contains_declaration(ty, t)
      u1 == search_for_macro_name(w.u, cindex.cursors[decl].tokens)
  IN [stack |-> IF ~is_simple_type(t)
                THEN <<Frame("type", t, 0, skip_child)>> \o rest ELSE rest,
      result |-> TypeAdd(w.result, MkType(n, ty)),
      u |-> IF ~is_simple_type(t) /\ is_sugared_record(t) /\ skip_child
            THEN [u1 EXCEPT !.types_to_skip = TypeAdd(@, MkType(n, t))]
            ELSE u1]

\* Type._get_related_types_of_record up to its loop
RecordStep(n, ty, skip_self, rest, w) ==
  LET decl == _get_declaration(ty) IN
  IF cindex.cursors[decl].spelling # "" /\ ~skip_self
  THEN [stack |-> <<Frame("fields", ty, 1, FALSE)>> \o rest,
        result |-> TypeAdd(w.result, MkType(n, ty)),
        u |-> search_for_macro_name(w.u, cindex.cursors[decl].tokens)]
  ELSE [w EXCEPT !.stack = <<Frame("fields", ty, 1, FALSE)>> \o rest]

\* Type.get_related_types up to the call it makes
TypeStep(n, ty, skip_self, rest, w) ==
  IF BaseCase(n, ty, w.result) THEN [w EXCEPT !.stack = rest]
  ELSE IF is_typedef(ty) THEN TypedefStep(n, ty, rest, w)
  ELSE IF is_elaborated(ty)
  THEN [w EXCEPT !.stack = <<Frame("type", cindex.types[ty].sub, 0, skip_self)>> \o rest]
  ELSE IF is_const_array(ty)
  THEN [w EXCEPT !.stack = <<Frame("type", cindex.types[ty].sub, 0, FALSE)>> \o rest]
  ELSE IF cindex.types[ty].kind \in
            {"POINTER", "MEMBERPOINTER", "LVALUEREFERENCE", "RVALUEREFERENCE"}
  THEN [w EXCEPT !.stack = <<Frame("type", get_pointee(ty), 0, skip_self)>> \o rest]
  ELSE IF is_struct(ty) \/ is_union(ty) THEN RecordStep(n, ty, skip_self, rest, w)
  ELSE IF is_function(ty)
  THEN [w EXCEPT !.stack = <<Frame("args", ty, 1, FALSE)>> \o rest]
  ELSE IF is_sugared_enum(ty) /\ ~skip_self
  THEN [stack |-> rest,
        result |-> TypeAdd(w.result, MkType(n, ty)),
        u |-> search_for_macro_name(w.u, cindex.cursors[_get_declaration(ty)].tokens)]
  ELSE [w EXCEPT !.stack = rest]

\* One turn of the loop of _get_related_types_of_record up to its call
FieldsStep(n, ty, i, rest, w) ==
  LET fields == cindex.cursors[cindex.types[ty].decl].fields IN
  IF i > Len(fields) THEN [w EXCEPT !.stack = rest]
  ELSE [w EXCEPT
          !.stack = <<Frame("type", fields[i].type, 0, FALSE),
                      Frame("fields", ty, i + 1, FALSE)>> \o rest,
          !.u = search_for_macro_name(@, fields[i].tokens)]

\* One turn of the loop of _get_related_types_of_function up to its call,
\* the call for the result type after the last
ArgsStep(n, ty, i, rest, w) ==
  IF i > Len(cindex.types[ty].args)
  THEN [w EXCEPT !.stack = <<Frame("type", cindex.types[ty].result, 0, FALSE)>> \o rest]
  ELSE [w EXCEPT !.stack = <<Frame("type", cindex.types[ty].args[i], 0, FALSE),
                             Frame("args", ty, i + 1, FALSE)>> \o rest]

\* The running frame runs up to the next call
FrameStep(n, w) ==
  LET f == Head(w.stack) IN
  IF f.op = "type" THEN TypeStep(n, f.ty, f.skip_self, Tail(w.stack), w)
  ELSE IF f.op = "fields" THEN FieldsStep(n, f.ty, f.i, Tail(w.stack), w)
  ELSE ArgsStep(n, f.ty, f.i, Tail(w.stack), w)

InitWalk ==
  /\ cindex = Parsed
  /\ decls = {}
  /\ translation_units = <<1, 2>>
  /\ tu = Processed
  /\ functions = None
  /\ built_for = {}
  /\ call = NoCall
  /\ m_arg = NoArgument
  /\ m_out = Unset
  /\ \E n \in TUs : \E ty \in TypesOf(n) :
       /\ input = [op |-> "walk", tu |-> n, ty |-> ty]
       /\ output = [status |-> "running", result |-> {},
                    stack |-> <<Frame("type", ty, 0, FALSE)>>]
\* The next call of Type(tu, ty).get_related_types() is made; more than
\* MaxDepth open calls raise RecursionError
WalkStep ==
  /\ input.op = "walk"
  /\ output.status = "running"
  /\ output.stack # <<>>
  /\ \E w \in {FrameStep(input.tu, [stack |-> output.stack, result |-> output.result,
                                    u |-> tu[input.tu]])} :
       /\ output' = IF Len(w.stack) > MaxDepth
                    THEN [status |-> "raised", result |-> w.result, stack |-> <<>>]
                    ELSE [status |-> "running", result |-> w.result, stack |-> w.stack]
       /\ tu' = [tu EXCEPT ![input.tu] = w.u]
  /\ UNCHANGED <<cindex, decls, translation_units, functions, built_for, call, m_arg, m_out, input>>

\* The first call returns
WalkReturn ==
  /\ input.op = "walk"
  /\ output.status = "running"
  /\ output.stack = <<>>
  /\ output' = [output EXCEPT !.status = "returned"]
  /\ UNCHANGED <<cindex, decls, translation_units, tu, functions, built_for, call, m_arg, m_out, input>>

NextWalk == WalkStep \/ WalkReturn

SpecWalk == InitWalk /\ [][NextWalk]_vars

\* The interpreter runs the call as long as it has not ended
SpecWalkFair == SpecWalk /\ WF_vars(NextWalk)

\* C24: Type.get_related_types terminates on every type graph, the cyclic
\* ones among them: a struct with a field that is a pointer to a function
\* taking a pointer to the struct, a self-referential struct declared
\* inside a typedef, and records without a name.
C24_Terminates == <>(output.status = "returned")

\* The call on the typedef of a self-referential struct declared inside it
\* has returned, and the struct, skipped on the first visit, is in the
\* result
C24_Witness_SelfReferential ==
  /\ input.op = "walk" /\ input.ty = "node_t"
  /\ output.status = "returned"
  /\ MkType(2, "struct_Node") \in tu[2].types_to_skip
  /\ \E t \in output.result : TypeUsr(t) = "c:@S@Node"

--------------------------------------------------------------------------
(* _TranslationUnit.search_for_macro_name, call by call: output.stack      *)
(* holds the open calls, each the token list of its cursor and the place   *)
(* of its loop, the running call last.  The call is made twice with the    *)
(* same cursor; output.first is required_defines as the first call left it.*)

\* The token lists of the cursors of translation unit n and of their fields
TokenLists(n) ==
  {cindex.cursors[c].tokens : c \in Range(_walk_preorder(n, {}))}
    \cup UNION {{f.tokens : f \in Range(cindex.cursors[c].fields)} :
                c \in Range(_walk_preorder(n, {}))}

\* A variant of IsNewMacro that takes a macro again when it is already
\* required: C25 is sensitive to it.
IsDefinedMacro(u, token) == token \in DOMAIN u.defines

\* The condition of the loop of search_for_macro_name
IsNewMacro(u, token) == token \in DOMAIN u.defines /\ token \notin u.required_defines

\* One turn of the loop of the running call: w is [stack, u]
SearchStep(w) ==
  LET top == Last(w.stack)
      rest == SubSeq(w.stack, 1, Len(w.stack) - 1)
  IN IF top.i > Len(top.tokens) THEN [w EXCEPT !.stack = rest]
     ELSE LET token == top.tokens[top.i]
              next == [top EXCEPT !.i = @ + 1]
          IN IF IsNewMacro(w.u, token)
             THEN [stack |-> rest \o <<next, [tokens |-> cindex.cursors[w.u.defines[token]].tokens,
                                              i |-> 1]>>,
                   u |-> [w.u EXCEPT !.required_defines = @ \cup {token}]]
             ELSE [w EXCEPT !.stack = rest \o <<next>>]

InitSearch ==
  /\ cindex = Parsed
  /\ decls = {}
  /\ translation_units = <<1, 2>>
  /\ tu = Processed
  /\ functions = None
  /\ built_for = {}
  /\ call = NoCall
  /\ m_arg = NoArgument
  /\ m_out = Unset
  /\ \E n \in TUs : \E tokens \in TokenLists(n) :
       /\ input = [op |-> "search", tu |-> n, tokens |-> tokens]
       /\ output = [status |-> "running", calls |-> 1, first |-> {},
                    stack |-> <<[tokens |-> tokens, i |-> 1]>>]

\* The running call of search_for_macro_name makes one turn of its loop;
\* more than MaxDepth open calls raise RecursionError
Search ==
  /\ input.op = "search"
  /\ output.status = "running"
  /\ output.stack # <<>>
  /\ \E w \in {SearchStep([stack |-> output.stack, u |-> tu[input.tu]])} :
       /\ output' = IF Len(w.stack) > MaxDepth
                    THEN [output EXCEPT !.status = "raised", !.stack = <<>>]
                    ELSE [output EXCEPT !.stack = w.stack]
       /\ tu' = [tu EXCEPT ![input.tu] = w.u]
  /\ UNCHANGED <<cindex, decls, translation_units, functions, built_for, call, m_arg, m_out, input>>

\* The first call returns and the second one, with the same cursor, is made
SearchAgain ==
  /\ input.op = "search"
  /\ output.status = "running"
  /\ output.stack = <<>>
  /\ output.calls = 1
  /\ output' = [output EXCEPT !.calls = 2, !.first = tu[input.tu].required_defines,
                              !.stack = <<[tokens |-> input.tokens, i |-> 1]>>]
  /\ UNCHANGED <<cindex, decls, translation_units, tu, functions, built_for, call, m_arg, m_out, input>>

\* The second call returns
SearchReturn ==
  /\ input.op = "search"
  /\ output.status = "running"
  /\ output.stack = <<>>
  /\ output.calls = 2
  /\ output' = [output EXCEPT !.status = "returned"]
  /\ UNCHANGED <<cindex, decls, translation_units, tu, functions, built_for, call, m_arg, m_out, input>>

NextSearch == Search \/ SearchAgain \/ SearchReturn

SpecSearch == InitSearch /\ [][NextSearch]_vars

\* The interpreter runs the calls as long as they have not ended
SpecSearchFair == SpecSearch /\ WF_vars(NextSearch)

\* C25: search_for_macro_name terminates for every set of macro
\* definitions, macros that mention themselves or each other among them,
\* and a second call with the same cursor adds nothing to required_defines.
C25_TerminatesIdempotent ==
  /\ <>(output.status = "returned")
  /\ [](output.status = "returned" => tu[input.tu].required_defines = output.first)

\* Both calls on tokens that name a macro whose body names a second macro
\* whose body names the first have returned, and both macros are required
C25_Witness_MutualMacros ==
  /\ input.op = "search" /\ output.status = "returned"
  /\ "PING" \in Range(input.tokens)
  /\ {"PING", "PONG"} \subseteq tu[input.tu].required_defines
  /\ "PING" \in Range(cindex.cursors[tu[input.tu].defines["PONG"]].tokens)

--------------------------------------------------------------------------
(* The record of a translation unit once it is processed, over the calls   *)
(* of the Generator.                                                       *)

\* The maps and the function set of record u are those of record v
SameMaps(u, v) ==
  /\ u.order = v.order
  /\ u.defines = v.defines
  /\ u.forward_decls = v.forward_decls
  /\ u.functions = v.functions

\* C26: once a translation unit is processed, no call changes its
\* visitation-order map, macro-definition map, forward-declaration map,
\* function set or set of types to skip; required_defines only gains
\* elements.
C26_OnlyRequiredDefinesChanges ==
  [][\A n \in TUs : tu[n].processed =>
       /\ tu'[n].processed
       /\ SameMaps(tu[n], tu'[n])
       /\ tu'[n].types_to_skip = tu[n].types_to_skip
       /\ tu[n].required_defines \subseteq tu'[n].required_defines]_vars

\* C26, amended: once a translation unit is processed, no call changes its
\* visitation-order map, macro-definition map, forward-declaration map or
\* function set; required_defines and the set of types to skip only gain
\* elements.
C26_OnlyGrowingSetsChange ==
  [][\A n \in TUs : tu[n].processed =>
       /\ tu'[n].processed
       /\ SameMaps(tu[n], tu'[n])
       /\ tu[n].types_to_skip \subseteq tu'[n].types_to_skip
       /\ tu[n].required_defines \subseteq tu'[n].required_defines]_vars

\* A processed translation unit whose required_defines and set of types to
\* skip have both grown since it was processed
C26_Witness_GrownAfterProcess ==
  \E n \in TUs : /\ tu[n].processed
                  /\ tu[n].required_defines # {}
                  /\ tu[n].types_to_skip # {}

--------------------------------------------------------------------------
(* _init_libclang over the calls of one process.  output holds the         *)
(* process-global cindex.Config: loaded and library_file ("none" when not  *)
(* set), with the number of _init_libclang calls made, the number of       *)
(* set_library_file calls, and whether one of them came after the library  *)
(* was loaded.  input.installed holds the library names util.find_library  *)
(* finds; input.default_loads tells whether the library loads when no      *)
(* location was set.                                                       *)

\* The versions probed by _init_libclang, in order
Versions == <<"", "12", "11", "10", "9", "8", "7", "6.0", "5.0", "4.0">>

\* libname of _init_libclang
LibName(version) == "clang" \o (IF version # "" THEN "-" \o version ELSE "")

\* util.find_library: the file of an installed library, "none" otherwise
find_library(installed, libname) ==
  IF libname \in installed THEN "lib" \o libname \o ".so" ELSE "none"

\* cindex.Config.set_library_file
set_library_file(cfg, libclang) ==
  [cfg EXCEPT !.library_file = libclang, !.sets = @ + 1,
              !.set_when_loaded = @ \/ cfg.loaded]

\* The loop of _init_libclang from version number i on
RECURSIVE ProbeLoop(_, _, _)
ProbeLoop(cfg, installed, i) ==
  IF i > Len(Versions) THEN cfg
  ELSE IF find_library(installed, LibName(Versions[i])) # "none"
       THEN set_library_file(cfg, find_library(installed, LibName(Versions[i])))
       ELSE ProbeLoop(cfg, installed, i + 1)

\* A variant of _init_libclang that probes whether or not the library is
\* loaded: C27 is sensitive to it.
InitLibclangAlways(cfg, installed) ==
  ProbeLoop([cfg EXCEPT !.calls = @ + 1], installed, 1)

_init_libclang(cfg, installed) ==
  IF cfg.loaded THEN [cfg EXCEPT !.calls = @ + 1]
  ELSE ProbeLoop([cfg EXCEPT !.calls = @ + 1], installed, 1)

\* cindex.Index.create: the library is loaded, from the location set or,
\* when none is set, from the default one if it loads
IndexCreate(cfg, default_loads) ==
  IF cfg.library_file # "none" \/ default_loads THEN [cfg EXCEPT !.loaded = TRUE] ELSE cfg

\* Analyzer._analyze_file_for_tu as far as the library goes
AnalyzeFile(cfg, in, path) ==
  IF ~isfile(path) THEN cfg
  ELSE IndexCreate(_init_libclang(cfg, in.installed), in.default_loads)

\* The loop of Analyzer.process_files; it ends at the first path that
\* raises
RECURSIVE AnalyzeFiles(_, _, _, _)
AnalyzeFiles(cfg, in, paths, i) ==
  IF i > Len(paths) \/ cfg.calls >= MaxCalls THEN cfg
  ELSE IF ~isfile(paths[i]) THEN cfg
       ELSE AnalyzeFiles(AnalyzeFile(cfg, in, paths[i]), in, paths, i + 1)

\* The library names installed
Installed == SUBSET {"clang", "clang-11", "clang-6.0"}

\* The input_paths of a process_files call
LibPaths == {<<>>, <<"a.h">>, <<"missing.h">>, <<"a.h", "b.h">>}

InitLibclang ==
  /\ cindex = Parsed
  /\ decls = {}
  /\ translation_units = <<1, 2>>
  /\ tu = [n \in TUs |-> NewTranslationUnit(TuPath[n], FALSE)]
  /\ functions = None
  /\ built_for = {}
  /\ call = NoCall
  /\ m_arg = NoArgument
  /\ m_out = Unset
  /\ \E installed \in Installed : \E default_loads \in BOOLEAN :
       input = [op |-> "libclang", installed |-> installed, default_loads |-> default_loads]
  /\ output = [status |-> "running", loaded |-> FALSE, library_file |-> "none",
               calls |-> 0, sets |-> 0, set_when_loaded |-> FALSE]

\* Analyzer.process_files(input_paths)
LibProcessFiles(paths) ==
  /\ input.op = "libclang"
  /\ output.calls < MaxCalls
  /\ output' = AnalyzeFiles(_init_libclang(output, input.installed), input, paths, 1)
  /\ UNCHANGED <<cindex, decls, translation_units, tu, functions, built_for, call, m_arg, m_out, input>>

\* Analyzer._analyze_file_for_tu(path)
LibAnalyzeFile(path) ==
  /\ input.op = "libclang"
  /\ output.calls < MaxCalls
  /\ output' = AnalyzeFile(output, input, path)
  /\ UNCHANGED <<cindex, decls, translation_units, tu, functions, built_for, call, m_arg, m_out, input>>

\* Generator(translation_units)
LibNewGenerator ==
  /\ input.op = "libclang"
  /\ output.calls < MaxCalls
  /\ output' = _init_libclang(output, input.installed)
  /\ UNCHANGED <<cindex, decls, translation_units, tu, functions, built_for, call, m_arg, m_out, input>>

NextLibclang ==
  \/ \E paths \in LibPaths : LibProcessFiles(paths)
  \/ \E path \in {"a.h", "missing.h"} : LibAnalyzeFile(path)
  \/ LibNewGenerator

SpecLibclang == InitLibclang /\ [][NextLibclang]_vars

\* The location the first _init_libclang call sets: the file of the first
\* installed name in the probe order, "none" when none is installed
FirstFound(installed) ==
  IF \A i \in 1..Len(Versions) : LibName(Versions[i]) \notin installed THEN "none"
  ELSE LET i == CHOOSE i \in 1..Len(Versions) :
                  /\ LibName(Versions[i]) \in installed
                  /\ \A j \in 1..(i - 1) : LibName(Versions[j]) \notin installed
       IN "lib" \o LibName(Versions[i]) \o ".so"

\* C27: the first _init_libclang call sets the library location from the
\* first name found in the probe order, every later call leaves the
\* location as it is, and the location is never set after the library has
\* been loaded.
C27_ConfiguredOnce ==
  /\ [](output.calls >= 1 => output.library_file = FirstFound(input.installed))
  /\ [][output.calls >= 1 => output'.library_file = output.library_file]_vars
  /\ [](~output.set_when_loaded)

\* _init_libclang was called again after the library was loaded from the
\* location of a versioned name, the unversioned one not being installed
C27_Witness_CalledAfterLoad ==
  /\ input.op = "libclang"
  /\ input.installed = {"clang-11", "clang-6.0"}
  /\ output.loaded /\ output.library_file = "libclang-11.so"
  /\ output.calls > output.sets /\ output.sets >= 1

--------------------------------------------------------------------------
(* The types of the functions of the Generator and the visitation-order    *)
(* map of their translation unit.                                          *)

\* What Function.get_related_types returns for the function f of the
\* Generator
RelatedOf(f) == Function_get_related_types(f, FALSE, {}, tu[f.tu]).result

--------------------------------------------------------------------------
(* The function list of the Generator over the calls.                      *)

\* C29: _get_functions computes the function list once per Generator: once
\* it is computed no call changes it, whatever func_names the call is
\* given, so that the types a generate call emits are of the closures of
\* the functions of that list, the ones its methods are emitted for.
C29_ComputedOnce ==
  /\ [][~functions.none => functions' = functions /\ built_for' = built_for]_vars
  /\ [](call.op = "generate" /\ call.status = "returned" =>
          \A i \in 1..Len(call.types) : OfRetained(call.types[i]))

\* generate returned for a func_names that selects other functions than the
\* func_names the list was computed for
C29_Witness_LaterWhitelist ==
  /\ call.op = "generate" /\ call.status = "returned"
  /\ ~functions.none /\ Len(functions.list) >= 1
  /\ call.func_names # built_for
  /\ Wanted(tu, call.func_names) # Wanted(tu, built_for)

--------------------------------------------------------------------------
(* The source extents of the declarations of the types of the list that    *)
(* Generator._get_related_types returns.                                   *)

\* The declaration of Type a is written inside the declaration of Type b
ExtentInside(a, b) ==
  LET x == cindex.cursors[_get_declaration(a.ty)]
      y == cindex.cursors[_get_declaration(b.ty)]
  IN /\ _get_declaration(a.ty) # _get_declaration(b.ty)
     /\ x.file # "none" /\ x.file = y.file
     /\ y.lo <= x.lo /\ x.hi <= y.hi

\* C30: no type of the list _get_related_types returns has a declaration
\* whose source extent lies inside the declaration extent of another type
\* of the list.
C30_NoNestedExtents ==
  call.op = "_get_related_types" /\ call.status = "returned" =>
    \A i, j \in 1..Len(call.types) : ~ExtentInside(call.types[i], call.types[j])

====
